---- MODULE Spec2Model ----
(***************************************************************************)
(* A model of stream-merge: the tournament tree merger                     *)
(* (src/src/tournament_tree.rs), the delayed-prefetch stream combinator    *)
(* TakeThenBuffered (src/src/util/mod.rs), the per-input pipeline with its *)
(* 1-deep channel (src/src/lib.rs), the pcap parser (src/src/pcap/mod.rs), *)
(* the S3 chunk stream (src/src/s3/mod.rs) and the merge_pcaps program     *)
(* (src/src/bin/merge_pcaps.rs).                                           *)
(*                                                                         *)
(* Each subsystem has its own specification (SpecTree, SpecTTB, SpecPipe,  *)
(* SpecPackets, SpecS3, SpecMerge); a specification leaves the variables   *)
(* of the other subsystems at the value they have right after              *)
(* construction. SpecMergeFair is SpecMerge under fair scheduling of the   *)
(* producer tasks and of main; SpecPacketsRejecting is the pcap parser     *)
(* over a file with a record that the frame parser rejects.                *)
(***************************************************************************)
EXTENDS Integers, Sequences, FiniteSets, TLC

VARIABLES
    \* ---- tournament tree (struct Tree, tournament_tree.rs:8-14) ----
    inputs,               \* the input streams as handed to Tree::new (history)
    input_streams,        \* what each stream's iterator still holds
    values,               \* Vec<u64>: head timestamp of each leaf
    nodes,                \* Vec<u16>: winner index stored at each tree node
    winning_value_index,
    needs_updating,
    popped,               \* history: every item returned by Tree::pop
    pop_ret,              \* result of the last Tree::pop
    none_pops,            \* history: pops that returned None (up to MaxNonePops)
    comparisons,          \* history: value comparisons made by the last Tree::pop
    \* ---- TakeThenBuffered (util/mod.rs:23-33) ----
    stream,               \* futures the source stream has not yielded yet
    stream_done,          \* Fuse::is_done
    in_progress_queue,    \* FuturesOrdered, in submission order
    take_n_serially,
    max_n_buffered,
    completed,            \* futures of the queue whose output is available
    emitted,              \* history: outputs returned as Ready(Some)
    poll_ret,             \* result of the last poll_next
    ttb_hist,             \* history: parameters at construction, pulls, readiness
    \* ---- per-input pipeline (lib.rs:37-88) ----
    parser,               \* items the pcap parser has not yielded yet
    producer,             \* producer task: its position and the batch it holds
    channel,              \* async_channel::bounded(1): queued batches
    channel_closed,
    receiver,             \* merger side: rest of the batch being flattened
    delivered,            \* history: packets handed to the merger
    pipe_hist,            \* history: parser output, sends, receives
    \* ---- pcap parser (struct Packets, pcap/mod.rs:25-33) ----
    pcap_file,            \* the bytes the reader will hand out, and what they encode
    reader,               \* bytes handed out so far, result of the last read
    pk_pc,                \* "new": in Packets::new, "stream": constructed, "failed"
    header_bytes,         \* Packets::new: let mut header_bytes = [0; 24]
    n_header_bytes_read,
    ts_usec_multiplier,
    parse,                \* "le": parse_pcap_frame, "be": parse_pcap_frame_be
    buffer,               \* BytesMut: bytes read and not yet emitted
    reader_exhausted,
    pk_items,             \* history: items returned as Ready(Some)
    pk_ret,               \* result of the last poll_next
    \* ---- S3 object chunks (struct ObjectChunks, s3/mod.rs:28-47) ----
    s3_uri,               \* the uri given to ObjectChunks::new, as characters
    s3_object,            \* the object in S3: its length, whether HEAD fails
    oc_pc,                \* "new": before ObjectChunks::new, "stream", "error", "panicked"
    bucket,
    key,
    next_chunk_start,
    chunk_size,
    file_size,            \* Option<usize>: <<>> is None, <<n>> is Some(n)
    head_object_request,  \* "none", "outstanding", "ready", "taken"
    oc_hist,              \* history: requests made, polls answered pending
    oc_ret,               \* result of the last poll_next
    \* ---- the merge_pcaps program (bin/merge_pcaps.rs:59-103) ----
    pcaps,                \* Args.pcaps: per input file its packets, whether it fails
    pipelines,            \* per input: producer task, channel, flattened receiver
    packet_streams,       \* per input: the Peekable of its PacketStream
    main_pc,              \* main: "new", "header", "pop", "exit"
    stdout,               \* what main has written
    exit_status           \* "running", then how the process ended

treeVars == <<inputs, input_streams, values, nodes, winning_value_index,
              needs_updating, popped, pop_ret, none_pops, comparisons>>
ttbVars  == <<stream, stream_done, in_progress_queue, take_n_serially,
              max_n_buffered, completed, emitted, poll_ret, ttb_hist>>
pipeVars == <<parser, producer, channel, channel_closed, receiver, delivered,
              pipe_hist>>
pcapVars == <<pcap_file, reader, pk_pc, header_bytes, n_header_bytes_read,
              ts_usec_multiplier, parse, buffer, reader_exhausted, pk_items,
              pk_ret>>
s3Vars == <<s3_uri, s3_object, oc_pc, bucket, key, next_chunk_start, chunk_size,
            file_size, head_object_request, oc_hist, oc_ret>>
mergeVars == <<pcaps, pipelines, packet_streams, main_pc, stdout, exit_status>>
vars == <<treeVars, ttbVars, pipeVars, pcapVars, s3Vars, mergeVars>>

\* What the operations of one subsystem leave alone
notTree == <<ttbVars, pipeVars, pcapVars, s3Vars, mergeVars>>
notTTB  == <<treeVars, pipeVars, pcapVars, s3Vars, mergeVars>>
notPipe == <<treeVars, ttbVars, pcapVars, s3Vars, mergeVars>>
notPcap == <<treeVars, ttbVars, pipeVars, s3Vars, mergeVars>>
notS3   == <<treeVars, ttbVars, pipeVars, pcapVars, mergeVars>>
notMerge == <<ttbVars, pipeVars, pcapVars, s3Vars>>

(***************************************************************************)
(* Bounds of the model.                                                    *)
(***************************************************************************)
MaxN == 5          \* input streams of a tree: 0..MaxN
MaxTotal == 4      \* items over all input streams of a tree
MaxTs == 2         \* timestamps are 1..MaxTs
WideN == 9         \* one wider tree (16 leaves, four levels) ...
WideTotal == 2     \* ... holding at most WideTotal items
MaxNonePops == 2   \* pops returning None that none_pops tells apart

Min(a, b) == IF a < b THEN a ELSE b

(***************************************************************************)
(* Tournament tree                                                         *)
(***************************************************************************)

\* std::u64::MAX, the sentinel of an exhausted stream: larger than every
\* timestamp of the model.
MAX_U64 == MaxTs + 1

\* usize::next_power_of_two (0 and 1 give 1)
RECURSIVE PowerOfTwoFrom(_, _)
PowerOfTwoFrom(p, n) == IF p >= n THEN p ELSE PowerOfTwoFrom(2 * p, n)
next_power_of_two(n) == PowerOfTwoFrom(1, n)

n_leaf_nodes(n) == IF n = 1 THEN 1 ELSE next_power_of_two(n)

\* x ^ 1 on an index
Xor1(x) == IF x % 2 = 0 THEN x + 1 ELSE x - 1

\* x >> 1
Shr1(x) == x \div 2

\* peek_timestamp without the sentinel: an exhausted stream answers the
\* largest timestamp
peek_timestamp_no_sentinel(s) == IF s = <<>> THEN MaxTs ELSE Head(s)

\* peek_timestamp answering zero for an exhausted stream
peek_timestamp_zero_at_end(s) == IF s = <<>> THEN 0 ELSE Head(s)

\* Mergeable::peek_timestamp of the iterator-backed streams
peek_timestamp(s) == IF s = <<>> THEN MAX_U64 ELSE Head(s)

\* LeafWinner without the comparison: the left leaf of the pair wins
LeafWinnerLeft(vals, i) == i - 1

\* The winner of the pair of leaves (i-1, i), i odd, in Tree::new
LeafWinner(vals, i) == IF vals[i] < vals[i - 1] THEN i ELSE i - 1

\* NodeWinner with the comparison reversed
NodeWinnerReversed(vals, left_child, right_child) ==
    IF vals[left_child] > vals[right_child] THEN left_child ELSE right_child

\* NodeWinner without the comparison: the left child's winner is stored
NodeWinnerLeft(vals, left_child, right_child) == left_child

\* The winner stored at an upper node in Tree::new
NodeWinner(vals, left_child, right_child) ==
    IF vals[left_child] < vals[right_child] THEN left_child ELSE right_child

\* Tree::new, first loop: for i in 0..n_leaf_nodes
RECURSIVE LeafLoop(_, _, _, _, _)
LeafLoop(i, K, streams, vals, nds) ==
    IF i >= K THEN [values |-> vals, nodes |-> nds]
    ELSE LET vals1 == IF i \in DOMAIN streams
                      THEN [vals EXCEPT ![i] = peek_timestamp(streams[i])]
                      ELSE vals
             nds1 == IF i % 2 # 0
                     THEN [nds EXCEPT ![Shr1(K) + Shr1(i)] = LeafWinner(vals1, i)]
                     ELSE nds
         IN LeafLoop(i + 1, K, streams, vals1, nds1)

\* Tree::new, inner loop: for i in level_start..(2 * level_start)
RECURSIVE LevelLoop(_, _, _, _)
LevelLoop(i, stop, vals, nds) ==
    IF i >= stop THEN nds
    ELSE LevelLoop(i + 1, stop, vals,
                   [nds EXCEPT ![i] = NodeWinner(vals, nds[2 * i], nds[2 * i + 1])])

\* Tree::new, outer loop: while level_start > 0
RECURSIVE LevelsLoop(_, _, _)
LevelsLoop(level_start, vals, nds) ==
    IF level_start > 0
    THEN LevelsLoop(Shr1(level_start), vals,
                    LevelLoop(level_start, 2 * level_start, vals, nds))
    ELSE nds

\* needs_updating as the struct literal of Tree::new sets it, were it left so
NeedsUpdatingLeftSet == TRUE

\* needs_updating when Tree::new returns: `tree.needs_updating = false`
NeedsUpdatingAfterNew == FALSE

\* Tree::new: the tree built over `streams` (a function on 0..N-1)
TreeNew(streams) ==
    LET N == Cardinality(DOMAIN streams)
        K == n_leaf_nodes(N)
        vals0 == [i \in 0..(K - 1) |-> MAX_U64]
        nds0 == [i \in 0..(K - 1) |-> K - 1]
        leaves == LeafLoop(0, K, streams, vals0, nds0)
        nds == LevelsLoop(Shr1(Shr1(K)), leaves.values, leaves.nodes)
    IN [values |-> leaves.values,
        nodes |-> nds,
        winning_value_index |-> IF K > 1 THEN nds[1] ELSE 0,
        needs_updating |-> NeedsUpdatingAfterNew]

\* A walk that goes on up to the root node
WalkContinuesToRoot(changed_index) == changed_index > 1

\* update_winner, the condition of its loop `while changed_index > 3`
WalkContinues(changed_index) == changed_index > 3

\* update_winner, the walk `while changed_index > 3`; `comparisons` counts its
\* `sibling_value < winning_value`
RECURSIVE WalkUp(_, _, _, _, _)
WalkUp(changed_index, vals, nds, winning_value, winning_index) ==
    IF WalkContinues(changed_index)
    THEN LET parent == Shr1(changed_index)
             sibling_value_index == nds[Xor1(changed_index)]
             sibling_value == vals[sibling_value_index]
             better == sibling_value < winning_value
             wi == IF better THEN sibling_value_index ELSE winning_index
             wv == IF better THEN sibling_value ELSE winning_value
             up == WalkUp(parent, vals, [nds EXCEPT ![parent] = wi], wv, wi)
         IN [up EXCEPT !.comparisons = @ + 1]
    ELSE [changed_index |-> changed_index, nodes |-> nds,
          winning_value |-> winning_value, winning_value_index |-> winning_index,
          comparisons |-> 0]

\* RootWinner without the comparison: the candidate of the walk wins
RootWinnerSkipped(vals, winning_value, winning_index, sibling_value_index) ==
    winning_index

\* A comparison at the root that gives the sibling the win at a tie
RootWinnerSiblingAtTie(vals, winning_value, winning_index, sibling_value_index) ==
    IF winning_value >= vals[sibling_value_index]
    THEN sibling_value_index ELSE winning_index

\* RootWinner without the comparison: the sibling subtree's winner wins
RootWinnerSibling(vals, winning_value, winning_index, sibling_value_index) ==
    sibling_value_index

\* The comparison at the root in update_winner
RootWinner(vals, winning_value, winning_index, sibling_value_index) ==
    IF winning_value > vals[sibling_value_index]
    THEN sibling_value_index ELSE winning_index

\* Tree::update_winner(changed_value_index); `comparisons` counts the value
\* comparisons: one at the leaf, those of the walk, one at the root
update_winner(changed_value_index, vals, nds, old_winner) ==
    LET K == Cardinality(DOMAIN nds) IN
    IF K > 1
    THEN LET parent == Shr1(K) + Shr1(changed_value_index)
             sibling_value == vals[Xor1(changed_value_index)]
             swap == sibling_value < vals[changed_value_index]
             wv0 == IF swap THEN sibling_value ELSE vals[changed_value_index]
             wi0 == IF swap THEN Xor1(changed_value_index) ELSE changed_value_index
         IN IF parent > 1
            THEN LET w == WalkUp(parent, vals, [nds EXCEPT ![parent] = wi0], wv0, wi0)
                 IN [nodes |-> w.nodes,
                     winning_value_index |->
                         RootWinner(vals, w.winning_value, w.winning_value_index,
                                    w.nodes[Xor1(w.changed_index)]),
                     comparisons |-> 1 + w.comparisons + 1]
            ELSE [nodes |-> nds, winning_value_index |-> wi0, comparisons |-> 1]
    ELSE [nodes |-> nds, winning_value_index |-> old_winner, comparisons |-> 0]

\* The non-decreasing sequences of `len` timestamps, none below `lo`
RECURSIVE NonDecreasing(_, _)
NonDecreasing(len, lo) ==
    IF len = 0 THEN {<<>>}
    ELSE UNION {{<<t>> \o s : s \in NonDecreasing(len - 1, t)} : t \in lo..MaxTs}

\* The vectors of n input streams holding at most `budget` items together
RECURSIVE InputVectors(_, _)
InputVectors(n, budget) ==
    IF n = 0 THEN {<<>>}
    ELSE UNION {{<<s>> \o v : s \in NonDecreasing(l, 1),
                               v \in InputVectors(n - 1, budget - l)} :
                l \in 0..budget}

\* A Vec (indices from 0) of a sequence
AsVec(s) == [i \in 0..(Len(s) - 1) |-> s[i + 1]]

TreeInit ==
    \E n \in (0..MaxN) \cup {WideN} :
    \E v \in InputVectors(n, IF n <= MaxN THEN MaxTotal ELSE WideTotal) :
    \E t \in {TreeNew(AsVec(v))} :
        /\ inputs = AsVec(v)
        /\ input_streams = AsVec(v)
        /\ values = t.values
        /\ nodes = t.nodes
        /\ winning_value_index = t.winning_value_index
        /\ needs_updating = t.needs_updating
        /\ popped = <<>>
        /\ pop_ret = "new"
        /\ none_pops = 0
        /\ comparisons = 0

\* A pop of the stream that takes two items where two are left
stream_pop_twice(s) == IF Len(s) > 1 THEN Tail(Tail(s)) ELSE Tail(s)

\* Mergeable::pop of the iterator-backed streams: what the iterator holds
\* after `self.iterator.next()`
stream_pop(s) == Tail(s)

\* One more pop that returned None
CountNone(n) == Min(n + 1, MaxNonePops)

\* Tree::pop. An index outside input_streams panics: pop_ret = "panic".
Pop ==
    /\ pop_ret # "panic"
    /\ IF needs_updating /\ winning_value_index \notin DOMAIN input_streams
       THEN /\ pop_ret' = "panic"
            /\ UNCHANGED <<inputs, input_streams, values, nodes,
                           winning_value_index, needs_updating, popped,
                           none_pops, comparisons>>
       ELSE LET w0 == winning_value_index
                vals1 == IF needs_updating
                         THEN [values EXCEPT ![w0] = peek_timestamp(input_streams[w0])]
                         ELSE values
                u == IF needs_updating
                     THEN update_winner(w0, vals1, nodes, w0)
                     ELSE [nodes |-> nodes, winning_value_index |-> w0,
                           comparisons |-> 0]
                w == u.winning_value_index
            IN /\ values' = vals1
               /\ nodes' = u.nodes
               /\ winning_value_index' = w
               /\ comparisons' = u.comparisons
               /\ IF vals1[w] = MAX_U64
                  THEN /\ pop_ret' = "none"
                       /\ none_pops' = CountNone(none_pops)
                       /\ UNCHANGED <<input_streams, needs_updating, popped>>
                  ELSE IF w \notin DOMAIN input_streams
                  THEN /\ pop_ret' = "panic"
                       /\ UNCHANGED <<input_streams, needs_updating, popped,
                                      none_pops>>
                  ELSE /\ needs_updating' = TRUE
                       /\ IF input_streams[w] = <<>>
                          THEN /\ pop_ret' = "none"
                               /\ none_pops' = CountNone(none_pops)
                               /\ UNCHANGED <<input_streams, popped>>
                          ELSE /\ pop_ret' = "some"
                               /\ UNCHANGED none_pops
                               /\ input_streams' =
                                      [input_streams EXCEPT ![w] = stream_pop(@)]
                               /\ popped' = Append(popped,
                                      [stream |-> w, ts |-> Head(input_streams[w])])
               /\ UNCHANGED inputs
    /\ UNCHANGED notTree

TreeNext == Pop


(***************************************************************************)
(* Properties of the tournament tree (under SpecTree)                      *)
(***************************************************************************)
RECURSIVE SumLen(_, _)
SumLen(f, n) == IF n = 0 THEN 0 ELSE Len(f[n - 1]) + SumLen(f, n - 1)

NInputs == Cardinality(DOMAIN inputs)

\* The timestamps popped from input stream j, in pop order
PoppedFrom(j) ==
    LET own == SelectSeq(popped, LAMBDA p : p.stream = j)
    IN [i \in 1..Len(own) |-> own[i].ts]

PoppedStreams == {popped[i].stream : i \in 1..Len(popped)}

\* C1: over any number of input streams, each non-decreasing in timestamp,
\* the timestamps returned by successive Tree::pop calls are non-decreasing.
C1_PoppedNonDecreasing ==
    \A i \in 1..(Len(popped) - 1) : popped[i].ts <= popped[i + 1].ts

\* C1 witness: four pops over at least three streams with a strict increase
C1_Witness ==
    /\ Len(popped) >= 4
    /\ Cardinality(PoppedStreams) >= 3
    /\ popped[1].ts < popped[Len(popped)].ts
    /\ popped[Len(popped)].stream < popped[1].stream

\* C2: when pop returns None every element of every input stream has been
\* popped exactly once: as many items as the inputs hold together, and from
\* each input exactly its sequence (for one input, the input itself).
C2_PoppedAllExactlyOnce ==
    pop_ret = "none" =>
        /\ Len(popped) = SumLen(inputs, NInputs)
        /\ \A j \in DOMAIN inputs : PoppedFrom(j) = inputs[j]
        /\ \A i \in 1..Len(popped) : popped[i].stream \in DOMAIN inputs

\* C2 witness: a merge of at least three non-empty streams has run to None
C2_Witness ==
    /\ pop_ret = "none"
    /\ Len(popped) >= 4
    /\ Cardinality(PoppedStreams) >= 3

\* C22: a Tree built from zero input streams returns None on its first pop
\* and on every later pop, and never indexes an input stream: no pop returns
\* an item, and none panics, as an index into the empty input_streams would.
C22_EmptyTreePopsNone ==
    NInputs = 0 =>
        /\ pop_ret \in {"new", "none"}
        /\ popped = <<>>
        /\ values[winning_value_index] = MAX_U64

\* C22 witness: a pop of the tree over no input has returned None
C22_Witness ==
    /\ NInputs = 0
    /\ input_streams = <<>>
    /\ pop_ret = "none"

\* Every input stream is exhausted
AllExhausted == \A j \in DOMAIN input_streams : input_streams[j] = <<>>

\* C23: once all inputs are exhausted pop returns None, and every pop after a
\* None returns None too; none of these pops advances an input stream, returns
\* an item or panics.
C23_NoneIsIdempotent ==
    [][(AllExhausted \/ pop_ret = "none") =>
           /\ pop_ret' = "none"
           /\ input_streams' = input_streams
           /\ popped' = popped]_vars

\* C23 witness: a second pop has returned None after a merge of at least
\* three non-empty streams over a tree with padding leaves
C23_Witness ==
    /\ none_pops >= 2
    /\ pop_ret = "none"
    /\ AllExhausted
    /\ Cardinality(PoppedStreams) >= 3
    /\ n_leaf_nodes(NInputs) > NInputs

\* C30: right after Tree::new and right after the update step of every pop,
\* winning_value_index is the index of a leaf whose value is the minimum of
\* all leaf values (values is as the update step left it: pop changes no
\* value after it).
C30_WinnerIsMinimum ==
    pop_ret # "panic" =>
        /\ winning_value_index \in DOMAIN values
        /\ \A i \in DOMAIN values : values[winning_value_index] <= values[i]

\* C30 witness: after at least two pops the update step has moved the winner
\* from the stream popped before to another one, in a tree of at least four
\* leaves that holds a larger value and an exhausted leaf
C30_Witness ==
    /\ pop_ret = "some"
    /\ Len(popped) >= 2
    /\ popped[Len(popped)].stream # popped[Len(popped) - 1].stream
    /\ Cardinality(DOMAIN values) >= 4
    /\ \E i, j \in DOMAIN values :
           /\ values[winning_value_index] < values[i]
           /\ values[i] < values[j]

\* The number of leaves of the tree, K
NLeaves == Cardinality(DOMAIN values)

\* The internal nodes: nodes[1] is the root, nodes[K/2..K-1] are the parents
\* of the leaves
InternalNodes == 1..(NLeaves - 1)

\* The leaf that wins child c (0: left, 1: right) of internal node i
ChildWinner(i, c) ==
    IF i >= Shr1(NLeaves) THEN 2 * (i - Shr1(NLeaves)) + c ELSE nodes[2 * i + c]

\* Internal node i stores a leaf whose value is the minimum of the values of
\* its two children's winners
NodeHoldsMin(i) ==
    /\ nodes[i] \in DOMAIN values
    /\ values[nodes[i]] = Min(values[ChildWinner(i, 0)], values[ChildWinner(i, 1)])

\* The internal nodes on the path from a leaf to the root
RECURSIVE Ancestors(_)
Ancestors(i) == IF i < 1 THEN {} ELSE {i} \cup Ancestors(Shr1(i))

PathOf(leaf) == Ancestors(Shr1(NLeaves) + Shr1(leaf))

\* C31: right after Tree::new every internal node holds the minimum of its
\* two children's winners, and in every later state so does every internal
\* node that is not on the path from the leaf of the winner popped last to
\* the root.
C31_NodesHoldMin ==
    pop_ret # "panic" =>
        /\ popped = <<>> => \A i \in InternalNodes : NodeHoldsMin(i)
        /\ popped # <<>> =>
               \A i \in InternalNodes \ PathOf(popped[Len(popped)].stream) :
                   NodeHoldsMin(i)

\* C31 witness: after at least two pops of a tree of eight leaves or more the
\* root node, which update_winner does not store, no longer holds a minimum,
\* while the nodes off the path of the winner popped last do
C31_Witness ==
    /\ Len(popped) >= 2
    /\ NLeaves >= 8
    /\ pop_ret = "some"
    /\ ~NodeHoldsMin(1)
    /\ \A i \in InternalNodes \ PathOf(popped[Len(popped)].stream) : NodeHoldsMin(i)

\* Every internal node but the root holds the minimum of its children's
\* winners, in every state
NonRootNodesHoldMin ==
    pop_ret # "panic" => \A i \in InternalNodes \ {1} : NodeHoldsMin(i)

\* Input stream j has no item left, or leaf j has no input stream (j >= N)
Exhausted(j) == j \notin DOMAIN input_streams \/ input_streams[j] = <<>>

SentinelIffExhausted(j) == (values[j] = MAX_U64) <=> Exhausted(j)

\* The leaf pop has advanced and not refreshed yet
StaleLeaf(j) == needs_updating /\ j = winning_value_index

\* C32: between tree operations values[j] is the MAX_U64 sentinel if and
\* only if input stream j is exhausted or j >= N, for every leaf j other
\* than the leaf of the winner that the last pop advanced and that the next
\* pop refreshes.
C32_SentinelIffExhausted ==
    pop_ret # "panic" =>
        \A j \in DOMAIN values : StaleLeaf(j) \/ SentinelIffExhausted(j)

\* C32 witness: the last pop took the last item of the winner's stream, whose
\* leaf still holds the popped timestamp, next to an exhausted input stream
\* and a padding leaf at the sentinel
C32_Witness ==
    /\ pop_ret = "some"
    /\ needs_updating
    /\ Exhausted(winning_value_index)
    /\ values[winning_value_index] # MAX_U64
    /\ \E j \in DOMAIN input_streams :
           j # winning_value_index /\ inputs[j] # <<>> /\ values[j] = MAX_U64
    /\ \E j \in DOMAIN values : j \notin DOMAIN input_streams
    /\ \A j \in DOMAIN values : StaleLeaf(j) \/ SentinelIffExhausted(j)

\* C32 as stated: values[j] is the sentinel if and only if input stream j is
\* exhausted or j >= N, for every leaf j, in every state between pops
C32_SentinelIffExhaustedEverywhere ==
    pop_ret # "panic" => \A j \in DOMAIN values : SentinelIffExhausted(j)

\* The lowest index among the leaves holding the minimum value
LowestMinLeaf ==
    CHOOSE j \in DOMAIN values :
        /\ \A i \in DOMAIN values : values[j] <= values[i]
        /\ \A i \in DOMAIN values : values[i] = values[j] => j <= i

\* C33: Tree::new breaks ties toward the lower leaf index at every level, so
\* that right after the build winning_value_index is the lowest index among
\* the leaves holding the minimum value.
C33_BuildTiesToLowerLeaf ==
    pop_ret = "new" => winning_value_index = LowestMinLeaf

\* Up to two leaves there is only the leaf level, whose ties go to the lower
\* leaf
BuildTiesToLowerLeafOfPair ==
    (pop_ret = "new" /\ NLeaves <= 2) => winning_value_index = LowestMinLeaf

\* log2 of a power of two: the number of levels of internal nodes
RECURSIVE Log2(_)
Log2(k) == IF k <= 1 THEN 0 ELSE 1 + Log2(Shr1(k))

\* C34: a pop that finds needs_updating set, that is every pop after the
\* first one that returned a packet, makes exactly one value comparison per
\* level of its update path, log2(K) in all (none for K = 1); a pop that
\* finds it clear, before any packet was returned, makes none; no pop makes
\* more than ceil(log2 K).
C34_ComparisonsPerPop ==
    [][pop_ret' # "panic" =>
          /\ comparisons' = IF needs_updating THEN Log2(NLeaves) ELSE 0
          /\ comparisons' <= Log2(NLeaves)]_vars

\* C34 witness: a pop that refreshed the winner's leaf in a tree of sixteen
\* leaves and made four comparisons, one per level
C34_Witness ==
    /\ pop_ret = "some"
    /\ Len(popped) >= 2
    /\ NLeaves = 16
    /\ comparisons = 4

\* C34 as stated: every pop after the build makes exactly log2(K)
\* comparisons when K >= 2
C34_EveryPopComparesPerLevel ==
    (pop_ret \in {"some", "none"} /\ NLeaves >= 2) => comparisons = Log2(NLeaves)

\* The first pop after the build returns the winner of the build without a
\* comparison
FirstPopComparesNothing ==
    (pop_ret = "some" /\ Len(popped) = 1) => comparisons = 0

\* Tree::new has peeked each input once and advanced none: every leaf of an
\* input holds the head of the stream as handed in, or the sentinel
NewPeeksEachInput ==
    /\ input_streams = inputs
    /\ \A j \in DOMAIN inputs :
           values[j] = IF inputs[j] = <<>> THEN MAX_U64 ELSE Head(inputs[j])

\* What a step of pop changes: the entry of values of the winner it found,
\* by a peek of that winner's stream, and the stream of the winner it
\* returns from, by one item
PopFrame ==
    LET w0 == winning_value_index
        w == winning_value_index'
    IN /\ inputs' = inputs
       /\ DOMAIN values' = DOMAIN values
       /\ DOMAIN input_streams' = DOMAIN input_streams
       /\ \A j \in DOMAIN values \ {w0} : values'[j] = values[j]
       /\ values'[w0] # values[w0] =>
              /\ needs_updating
              /\ w0 \in DOMAIN input_streams
              /\ values'[w0] = IF input_streams[w0] = <<>> THEN MAX_U64
                               ELSE Head(input_streams[w0])
       /\ \A j \in DOMAIN input_streams \ {w} : input_streams'[j] = input_streams[j]
       /\ pop_ret' = "some" =>
              /\ w \in DOMAIN input_streams
              /\ input_streams[w] # <<>>
              /\ input_streams'[w] = Tail(input_streams[w])
              /\ popped' = Append(popped, [stream |-> w, ts |-> Head(input_streams[w])])
       /\ pop_ret' # "some" => input_streams' = input_streams /\ popped' = popped

C36_IndicesInBounds ==
    /\ pop_ret # "panic"
    /\ DOMAIN nodes = DOMAIN values
    /\ \A i \in DOMAIN nodes : nodes[i] \in DOMAIN values
    /\ winning_value_index \in DOMAIN values
    /\ needs_updating => winning_value_index \in DOMAIN input_streams
    /\ (~needs_updating /\ values[winning_value_index] # MAX_U64) =>
           winning_value_index \in DOMAIN input_streams

\* C36 witness: a tree over five inputs (eight leaves), one of them empty,
\* has returned packets and then None twice
C36_Witness ==
    /\ NInputs = 5
    /\ \E j \in DOMAIN inputs : inputs[j] = <<>>
    /\ popped # <<>>
    /\ pop_ret = "none"
    /\ none_pops >= 2
    /\ needs_updating
    /\ winning_value_index \in DOMAIN input_streams

\* The winner of a build can be a padding leaf (an index not below N), when
\* every input is empty: pop then returns None without indexing
\* input_streams
WinnerIsPaddingLeaf ==
    /\ pop_ret = "none"
    /\ winning_value_index \notin DOMAIN input_streams
    /\ ~needs_updating

\* The inputs handed to Tree::new without an item
EmptyInputs == {j \in DOMAIN inputs : inputs[j] = <<>>}

\* C37: an input without packets has its leaf at the MAX_U64 sentinel from
\* the build onward and is never the source of a popped packet, wherever it
\* sits among the inputs; the packets of the other inputs come out in
\* non-decreasing order and, once pop returns None, completely.
C37_EmptyInputNeverWins ==
    EmptyInputs # {} =>
        /\ \A j \in EmptyInputs : values[j] = MAX_U64 /\ j \notin PoppedStreams
        /\ \A i, k \in 1..Len(popped) : i < k => popped[i].ts <= popped[k].ts
        /\ \A j \in DOMAIN inputs : Len(PoppedFrom(j)) <= Len(inputs[j])
        /\ pop_ret = "none" =>
               \A j \in DOMAIN inputs \ EmptyInputs :
                   PoppedFrom(j) = inputs[j] /\ input_streams[j] = <<>>

\* C37 witness: an empty input sits between two inputs with packets, and all
\* packets have been popped
C37_Witness ==
    /\ pop_ret = "none"
    /\ popped # <<>>
    /\ \E j \in EmptyInputs :
           /\ \E i \in DOMAIN inputs : i < j /\ inputs[i] # <<>>
           /\ \E i \in DOMAIN inputs : i > j /\ inputs[i] # <<>>
    /\ \A j \in EmptyInputs : values[j] = MAX_U64 /\ j \notin PoppedStreams
    /\ \A j \in DOMAIN inputs : PoppedFrom(j) = inputs[j]

\* An empty input at index 0 next to inputs whose packets were all popped
EmptyFirstInputMerged ==
    /\ pop_ret = "none"
    /\ popped # <<>>
    /\ 0 \in EmptyInputs
    /\ \A j \in DOMAIN inputs : PoppedFrom(j) = inputs[j]

\* C3: the merge is stable across inputs: of two popped packets with equal
\* timestamps, the one of the input with the lower index is popped first.
C3_StableMerge ==
    \A i, j \in 1..Len(popped) :
        (i < j /\ popped[i].ts = popped[j].ts) => popped[i].stream <= popped[j].stream

(***************************************************************************)
(* TakeThenBuffered                                                        *)
(***************************************************************************)
MaxSerial == 3     \* take_n_serially at construction: 0..MaxSerial
MaxBuffered == 4   \* max_n_buffered: 0..MaxBuffered
MaxSource == 8     \* futures the source stream yields: 0..MaxSource

\* FillTarget without the serial prefix
FillTargetNoSerial(take, max) == max

\* The bound of the fill loop: 1 while take_n_serially > 0, else max_n_buffered
FillTarget(take, max) == IF take > 0 THEN 1 ELSE max

\* SaturatingSub1 that leaves the counter as it is
SaturatingSubNone(take) == take

\* take_n_serially.saturating_sub(1)
SaturatingSub1(take) == IF take > 0 THEN take - 1 ELSE 0

\* poll_next's first loop. `ready` is the number of polls the source stream
\* answers with Ready before it answers Pending; Fuse answers Ready(None)
\* without polling once the source has ended.
RECURSIVE FillLoop(_, _, _, _, _, _, _)
FillLoop(q, take, src, done, ready, max, pushed) ==
    IF Len(q) < FillTarget(take, max)
    THEN IF done
         THEN [q |-> q, take |-> take, src |-> src, done |-> done,
               pushed |-> pushed, src_pending |-> FALSE]
         ELSE IF ready = 0
         THEN [q |-> q, take |-> take, src |-> src, done |-> done,
               pushed |-> pushed, src_pending |-> TRUE]
         ELSE IF src = <<>>
         THEN [q |-> q, take |-> take, src |-> src, done |-> TRUE,
               pushed |-> pushed, src_pending |-> FALSE]
         ELSE FillLoop(Append(q, Head(src)), SaturatingSub1(take), Tail(src),
                       done, ready - 1, max, pushed \cup {Head(src)})
    ELSE [q |-> q, take |-> take, src |-> src, done |-> done,
          pushed |-> pushed, src_pending |-> FALSE]

\* QueuePollNext yielding the newest available output instead of the oldest
QueuePollNextAny(q, comp) ==
    IF q = <<>> THEN [kind |-> "none", fut |-> 0]
    ELSE IF \E i \in 1..Len(q) : q[i] \in comp
    THEN [kind |-> "item",
          fut |-> q[CHOOSE i \in 1..Len(q) :
                      q[i] \in comp /\ \A j \in (i + 1)..Len(q) : q[j] \notin comp]]
    ELSE [kind |-> "pending", fut |-> 0]

\* in_progress_queue.poll_next_unpin: FuturesOrdered yields the output of the
\* oldest future, once it is available
QueuePollNext(q, comp) ==
    IF q = <<>> THEN [kind |-> "none", fut |-> 0]
    ELSE IF Head(q) \in comp THEN [kind |-> "item", fut |-> Head(q)]
    ELSE [kind |-> "pending", fut |-> 0]

\* StreamIsDone that always answers yes
StreamIsDoneAlways(done) == TRUE

\* this.stream.is_done()
StreamIsDone(done) == done

\* Whether a poll_next has handed cx's waker to someone who will use it: the
\* source stream when it answered Pending, the queue when it answered Pending
\* (its futures then hold the waker). An empty queue and a source that was not
\* polled, or answered Ready, keep no waker.
WakerRegistered(src_pending, queue_kind) == src_pending \/ queue_kind = "pending"

TTBInit ==
    \E n \in 0..MaxSerial, m \in 0..MaxBuffered, len \in 0..MaxSource :
        /\ stream = [i \in 1..len |-> i]
        /\ stream_done = FALSE
        /\ in_progress_queue = <<>>
        /\ take_n_serially = n
        /\ max_n_buffered = m
        /\ completed = {}
        /\ emitted = <<>>
        /\ poll_ret = "new"
        /\ ttb_hist = [take_n_serially |-> n, source |-> [i \in 1..len |-> i],
                       pulled |-> 0, all_immediate |-> TRUE, waker |-> FALSE]

\* TakeThenBuffered::poll_next. `ready`: see FillLoop; R: the futures pushed by
\* this call that are complete at their first poll.
PollNext(ready, R) ==
    LET f == FillLoop(in_progress_queue, take_n_serially, stream, stream_done,
                      ready, max_n_buffered, {})
        comp == completed \cup (R \cap f.pushed)
        r == QueuePollNext(f.q, comp)
    IN /\ R \subseteq f.pushed
       /\ stream' = f.src
       /\ stream_done' = f.done
       /\ take_n_serially' = f.take
       /\ UNCHANGED max_n_buffered
       /\ ttb_hist' = [ttb_hist EXCEPT
                         !.pulled = @ + Cardinality(f.pushed),
                         !.all_immediate = @ /\ ~f.src_pending /\ f.pushed \subseteq R,
                         !.waker = WakerRegistered(f.src_pending, r.kind)]
       /\ IF r.kind = "item"
          THEN /\ poll_ret' = "item"
               /\ emitted' = Append(emitted, r.fut)
               /\ in_progress_queue' = SelectSeq(f.q, LAMBDA x : x # r.fut)
               /\ completed' = comp \ {r.fut}
          ELSE /\ poll_ret' = IF r.kind = "none" /\ StreamIsDone(f.done)
                              THEN "done" ELSE "pending"
               /\ in_progress_queue' = f.q
               /\ completed' = comp
               /\ UNCHANGED emitted

Poll ==
    \E ready \in 0..(Len(stream) + 1) :
        \E R \in SUBSET {stream[i] : i \in 1..Min(Len(stream), max_n_buffered + 1)} :
            /\ PollNext(ready, R)
            /\ UNCHANGED notTTB

\* A future of the queue completes (its I/O has finished)
Complete ==
    \E i \in 1..Len(in_progress_queue) :
        /\ in_progress_queue[i] \notin completed
        /\ completed' = completed \cup {in_progress_queue[i]}
        /\ UNCHANGED <<stream, stream_done, in_progress_queue, take_n_serially,
                       max_n_buffered, emitted, poll_ret, ttb_hist>>
        /\ UNCHANGED notTTB

TTBNext == Poll \/ Complete

(***************************************************************************)
(* Properties of TakeThenBuffered (under SpecTTB)                          *)
(***************************************************************************)

\* C4: during the first serial_prefix outputs one future is in progress at a
\* time: while fewer than serial_prefix results have been returned, the queue
\* holds at most one future and a further future is pulled from the source
\* only after the previous one's result has been returned.
C4_SerialPrefix ==
    Len(emitted) < ttb_hist.take_n_serially =>
        /\ Len(in_progress_queue) <= 1
        /\ ttb_hist.pulled <= Len(emitted) + 1

\* C5: the outputs are emitted in submission order, whatever the order in
\* which the futures complete: the emitted sequence is always the sequence the
\* source yielded, up to its length, and all of it at completion.
C5_SubmissionOrder ==
    /\ Len(emitted) <= Len(ttb_hist.source)
    /\ emitted = SubSeq(ttb_hist.source, 1, Len(emitted))
    /\ poll_ret = "done" => emitted = ttb_hist.source

\* C5 witness: a younger future of the queue has completed before the oldest,
\* after an output was emitted
C5_Witness ==
    /\ Len(emitted) >= 1
    /\ Len(in_progress_queue) >= 3
    /\ in_progress_queue[1] \notin completed
    /\ in_progress_queue[3] \in completed

\* C6: with max_concurrent >= 1 the queue holds at most one future while the
\* serial counter is positive and at most max_concurrent once it is zero.
C6_QueueBound ==
    max_n_buffered >= 1 =>
        /\ take_n_serially > 0 => Len(in_progress_queue) <= 1
        /\ take_n_serially = 0 => Len(in_progress_queue) <= max_n_buffered

\* C6 witness: the counter is zero and the queue is full, with three futures
C6_Witness ==
    /\ take_n_serially = 0
    /\ ttb_hist.take_n_serially >= 1
    /\ max_n_buffered >= 3
    /\ Len(in_progress_queue) = max_n_buffered

\* C7: over a source of L immediately ready futures, with serial_prefix n >= 1
\* and max_concurrent m >= 1, the queue is empty after each of the first n-1
\* outputs and holds min(m-1, L-k) futures after the k-th output, k >= n; for
\* L = 8, n = 3, m = 4 it holds 3 after the third output and never more later.
C7_ReadyQueueLength ==
    LET k == Len(emitted)
        L == Len(ttb_hist.source)
        n == ttb_hist.take_n_serially
        m == max_n_buffered
    IN (ttb_hist.all_immediate /\ poll_ret = "item" /\ n >= 1 /\ m >= 1) =>
          /\ k < n => Len(in_progress_queue) = 0
          /\ k >= n => Len(in_progress_queue) = Min(m - 1, L - k)
          /\ (L = 8 /\ n = 3 /\ m = 4 /\ k = 3) => Len(in_progress_queue) = 3
          /\ (L = 8 /\ n = 3 /\ m = 4 /\ k > 3) => Len(in_progress_queue) <= 3

\* C7 witness: the third output of the source of 8 ready futures, n = 3, m = 4
C7_Witness ==
    /\ ttb_hist.all_immediate
    /\ poll_ret = "item"
    /\ Len(ttb_hist.source) = 8
    /\ ttb_hist.take_n_serially = 3
    /\ max_n_buffered = 4
    /\ Len(emitted) = 3
    /\ Len(in_progress_queue) = 3

\* C8: poll_next reports completion only when the source stream has reported
\* its end and the queue is empty: no item of the source is left unfetched
\* and no future unfinished.
C8_CompletionOnlyWhenDrained ==
    poll_ret = "done" =>
        /\ stream_done
        /\ stream = <<>>
        /\ in_progress_queue = <<>>
        /\ Len(emitted) = ttb_hist.pulled

\* C8 witness: completion after three outputs
C8_Witness ==
    /\ poll_ret = "done"
    /\ Len(emitted) >= 3

\* C24: for any take_n_serially and max_n_buffered, 0 included, a consumer
\* that polls whenever it is woken receives every item and then completion:
\* poll_next never answers Pending in a state from which no wake-up comes,
\* that is, without the waker held by the source stream or by a future of the
\* queue.
C24_PendingHasWaker == poll_ret = "pending" => ttb_hist.waker

\* The same for max_n_buffered >= 1
PendingHasWakerWhenBuffered ==
    (poll_ret = "pending" /\ max_n_buffered >= 1) => ttb_hist.waker

\* A poll_next with max_n_buffered = 0 has answered Pending with nobody
\* holding the waker, items of the source not yet pulled
PendingWithoutWaker ==
    /\ poll_ret = "pending"
    /\ ~ttb_hist.waker
    /\ max_n_buffered = 0
    /\ stream # <<>>
    /\ in_progress_queue = <<>>

(***************************************************************************)
(* Per-input pipeline: parser -> ready_chunks -> bounded(1) -> flatten     *)
(***************************************************************************)
MaxPackets == 4      \* packets the parser yields: 0..MaxPackets
ReadyChunksCap == 2  \* model-sized capacity of ready_chunks (2048 in lib.rs)

\* A channel of two slots
ChannelCapTwo == 1 + 1

\* bounded(1)
ChannelCap == 1

\* ready_chunks: the batch of the first k ready items
ReadyChunk(rest, k) == SubSeq(rest, 1, k)

\* channel.send(packets): the queue after the send
ChannelSend(ch, batch) == Append(ch, batch)

\* FlattenRest that skips the packet after the one yielded
FlattenRestSkip(batch) == IF Len(batch) >= 2 THEN Tail(Tail(batch)) ELSE <<>>

\* flatten over the received batches: what is left of the batch being iterated
\* once its first packet has been yielded
FlattenRest(batch) == Tail(batch)

PipeInit ==
    \E n \in 0..MaxPackets, fails \in BOOLEAN :
        /\ parser = [rest |-> [i \in 1..n |-> i], fails |-> fails]
        /\ producer = [pc |-> "next", batch |-> <<>>]
        /\ channel = <<>>
        /\ channel_closed = FALSE
        /\ receiver = [cur |-> <<>>, ended |-> FALSE]
        /\ delivered = <<>>
        /\ pipe_hist = [packets |-> [i \in 1..n |-> i], sent |-> <<>>,
                        received |-> <<>>]

\* packet_stream.next(): ready_chunks returns the k packets that were ready
ProducerBatch ==
    \E k \in 1..Min(ReadyChunksCap, Len(parser.rest)) :
        /\ producer.pc = "next"
        /\ producer' = [pc |-> "send", batch |-> ReadyChunk(parser.rest, k)]
        /\ parser' = [parser EXCEPT !.rest = SubSeq(@, k + 1, Len(@))]
        /\ UNCHANGED <<channel, channel_closed, receiver, delivered, pipe_hist, notPipe>>

\* The parser yields an error item (or Packets::new fails): unwrap panics,
\* the task ends, the Sender is dropped and with it the channel closes. The
\* packets ready_chunks had collected in this poll (fewer than its capacity)
\* are dropped with it.
ProducerPanic ==
    /\ producer.pc = "next"
    /\ parser.fails
    /\ Len(parser.rest) < ReadyChunksCap
    /\ producer' = [pc |-> "panicked", batch |-> <<>>]
    /\ parser' = [parser EXCEPT !.rest = <<>>]
    /\ channel_closed' = TRUE
    /\ UNCHANGED <<channel, receiver, delivered, pipe_hist, notPipe>>

\* The parser's stream has ended: the loop exits and channel.close() runs
ProducerClose ==
    /\ producer.pc = "next"
    /\ parser.rest = <<>>
    /\ ~parser.fails
    /\ producer' = [pc |-> "closed", batch |-> <<>>]
    /\ channel_closed' = TRUE
    /\ UNCHANGED <<parser, channel, receiver, delivered, pipe_hist, notPipe>>

\* channel.send(packets).await completes: there is room in the channel
ProducerSend ==
    /\ producer.pc = "send"
    /\ Len(channel) < ChannelCap
    /\ channel' = ChannelSend(channel, producer.batch)
    /\ producer' = [pc |-> "next", batch |-> <<>>]
    /\ pipe_hist' = [pipe_hist EXCEPT !.sent = Append(@, producer.batch)]
    /\ UNCHANGED <<parser, channel_closed, receiver, delivered, notPipe>>

\* The merger side asks the flattened receiver for its next packet
ReceiverNext ==
    /\ ~receiver.ended
    /\ IF receiver.cur # <<>>
       THEN /\ delivered' = Append(delivered, Head(receiver.cur))
            /\ receiver' = [receiver EXCEPT !.cur = FlattenRest(@)]
            /\ UNCHANGED <<channel, pipe_hist>>
       ELSE IF channel # <<>>
       THEN /\ delivered' = Append(delivered, Head(Head(channel)))
            /\ receiver' = [receiver EXCEPT !.cur = FlattenRest(Head(channel))]
            /\ channel' = Tail(channel)
            /\ pipe_hist' = [pipe_hist EXCEPT !.received = Append(@, Head(channel))]
       ELSE /\ channel_closed
            /\ receiver' = [receiver EXCEPT !.ended = TRUE]
            /\ UNCHANGED <<channel, delivered, pipe_hist>>
    /\ UNCHANGED <<parser, producer, channel_closed, notPipe>>

PipeNext ==
    ProducerBatch \/ ProducerPanic \/ ProducerClose \/ ProducerSend \/ ReceiverNext

(***************************************************************************)
(* Properties of the pipeline (under SpecPipe)                             *)
(***************************************************************************)
RECURSIVE Concat(_)
Concat(batches) ==
    IF batches = <<>> THEN <<>> ELSE Head(batches) \o Concat(Tail(batches))

IsPrefix(s, t) == Len(s) <= Len(t) /\ s = SubSeq(t, 1, Len(s))

\* C9: within one input the packets reach the merger in file order, none lost
\* or duplicated: the batches received, flattened, are the packets delivered
\* (and still to deliver from the current batch), they are the sequence the
\* parser yielded up to their length, and once the producer has closed the
\* channel nothing is lost: with the batch still queued they are the whole
\* sequence, which is what has been delivered when the receiver ends.
C9_FileOrder ==
    /\ delivered \o receiver.cur = Concat(pipe_hist.received)
    /\ IsPrefix(Concat(pipe_hist.received), pipe_hist.packets)
    /\ producer.pc = "closed" =>
           delivered \o receiver.cur \o Concat(channel) = pipe_hist.packets
    /\ (producer.pc = "closed" /\ receiver.ended) => delivered = pipe_hist.packets

\* C9 witness: the producer has closed the channel while its final batch is
\* still queued, after earlier packets were delivered
C9_Witness ==
    /\ producer.pc = "closed"
    /\ channel # <<>>
    /\ Len(delivered) >= 2
    /\ Len(pipe_hist.sent) >= 2

\* C10: the channel holds at most one batch, and a send completes only when
\* every earlier batch has been taken out of the channel.
C10_SingleSlot ==
    /\ Len(channel) <= 1
    /\ Len(pipe_hist.sent) = Len(pipe_hist.received) + Len(channel)
    /\ Len(pipe_hist.sent) - Len(pipe_hist.received) <= 1

\* C10 witness: the channel is full and the producer waits with its next batch
C10_Witness ==
    /\ Len(channel) = 1
    /\ producer.pc = "send"
    /\ Len(pipe_hist.received) >= 1

\* C11: once the first batch of an input is in the channel, and until the
\* merger has taken a packet of that input, the producer parses nothing
\* further: every packet the parser has yielded is in the batch that was sent.
C11_NoParsingBeforeFirstPacketTaken ==
    (Len(pipe_hist.sent) >= 1 /\ delivered = <<>> /\ pipe_hist.received = <<>>) =>
        /\ producer.batch = <<>>
        /\ Len(parser.rest) + Len(Concat(pipe_hist.sent)) = Len(pipe_hist.packets)

(***************************************************************************)
(* Pcap parser: Packets::new and Packets::poll_next (pcap/mod.rs)          *)
(***************************************************************************)
MaxRecords == 2    \* records of a file: 0..MaxRecords
MaxCaplen == 1     \* payload bytes of a record: 0..MaxCaplen
MaxCut == 1        \* bytes missing at the end of a truncated file: 0..MaxCut
MaxParseErrors == 2 \* error items a stream is polled for

\* Lengths of the read of Packets::new: end of file, too short for the magic,
\* the magic alone, the whole header
HeaderReadSizes == {0, 3, 4, 24}

Zeros(n) == [i \in 1..n |-> 0]

Reverse(b) == [i \in 1..Len(b) |-> b[Len(b) + 1 - i]]

\* The four bytes of v as the file holds them
EncU32(v, be) ==
    LET le == <<v % 256, (v \div 256) % 256, (v \div 65536) % 256,
                (v \div 16777216) % 256>>
    IN  IF be THEN Reverse(le) ELSE le

\* The magic of a file header: a1b2c3d4 for microseconds, a1b23c4d for
\* nanoseconds, in the byte order of the file
Magic(nano, be) ==
    LET le == IF nano THEN <<77, 60, 178, 161>> ELSE <<212, 195, 178, 161>>
    IN  IF be THEN Reverse(le) ELSE le

\* Bytes 5..24 of a file header: version 2.4, thiszone, sigfigs, snaplen
\* 262144, network 1
HeaderRest(be) ==
    (IF be THEN <<0, 2, 0, 4>> ELSE <<2, 0, 4, 0>>)
        \o EncU32(0, be) \o EncU32(0, be) \o EncU32(262144, be) \o EncU32(1, be)

\* The i-th record of a file as it is on disk: ts_sec, ts_usec or ts_nsec,
\* caplen, origlen, then caplen bytes of payload (here: each the byte i)
EncodeRecord(r, i, be) ==
    EncU32(r.ts_sec, be) \o EncU32(r.ts_frac, be) \o EncU32(r.caplen, be)
        \o EncU32(r.caplen, be) \o [j \in 1..r.caplen |-> i]

RECURSIVE EncodeRecords(_, _, _)
EncodeRecords(recs, i, be) ==
    IF i > Len(recs) THEN <<>>
    ELSE EncodeRecord(recs[i], i, be) \o EncodeRecords(recs, i + 1, be)

\* Record i of a file: the first `early` records are stamped {1, 500}, the
\* later ones {1, 600000} (files are time-ordered, pcap/mod.rs:23); payload
\* lengths go round 0..MaxCaplen from record to record
PcapRecord(i, early, c) ==
    [ts_sec |-> 1, ts_frac |-> IF i <= early THEN 500 ELSE 600000,
     caplen |-> (c + i) % (MaxCaplen + 1)]

RecordSeqs ==
    {[i \in 1..n |-> PcapRecord(i, early, c)] :
        n \in 0..MaxRecords, early \in 0..MaxRecords, c \in 0..MaxCaplen}

\* A pcap file of the given records whose last `cut` bytes are missing.
\* `rejected` is the number of the record the frame parser answers
\* Err(Error) for, 0 if it rejects none.
PcapFile(recs, nano, be, cut) ==
    LET whole == Magic(nano, be) \o HeaderRest(be) \o EncodeRecords(recs, 1, be)
    IN  [bytes |-> SubSeq(whole, 1, Len(whole) - cut), records |-> recs,
         nano |-> nano, be |-> be, cut |-> cut, rejected |-> 0]

\* le_u32 / be_u32. The integers of the model are signed and 32 bits wide: a
\* value of 2^31 or more is kept as 2^31 - 1.
U32(b, be) ==
    LET le == IF be THEN Reverse(b) ELSE b
    IN  IF le[4] >= 128 THEN 2147483647
        ELSE le[1] + 256 * le[2] + 65536 * le[3] + 16777216 * le[4]

\* parse_pcap_header on the 24 bytes of header_bytes: the magic is verified,
\* the other fields are taken as they are
ParsePcapHeader(hb) ==
    LET m == SubSeq(hb, 1, 4)
    IN  IF m \in {Magic(n, b) : n \in BOOLEAN, b \in BOOLEAN}
        THEN [kind |-> "ok",
              is_nanosecond_precision |-> m \in {Magic(TRUE, b) : b \in BOOLEAN},
              is_bigendian |-> m \in {Magic(n, TRUE) : n \in BOOLEAN}]
        ELSE [kind |-> "error"]

\* ts_usec_multiplier that is 1 whatever the precision
MultiplierAlwaysOne(is_nanosecond_precision) == 1

\* ts_usec_multiplier
Multiplier(is_nanosecond_precision) ==
    IF is_nanosecond_precision THEN 1 ELSE 1000

\* parse_pcap_frame / parse_pcap_frame_be, streaming: a record header of four
\* u32 and caplen bytes of data, Incomplete while the buffer is shorter
ParseFrame(buf, p) ==
    IF Len(buf) < 16 THEN [kind |-> "incomplete"]
    ELSE LET be == (p = "be")
             caplen == U32(SubSeq(buf, 9, 12), be)
         IN  IF Len(buf) - 16 < caplen THEN [kind |-> "incomplete"]
             ELSE [kind |-> "ok",
                   ts_sec |-> U32(SubSeq(buf, 1, 4), be),
                   ts_usec |-> U32(SubSeq(buf, 5, 8), be),
                   caplen |-> caplen,
                   rem_len |-> Len(buf) - 16 - caplen]

\* ts_sec as u64 * 1000000000 + ts_usec as u64 * ts_usec_multiplier as u64.
\* No u64 overflows here (both operands are u32); a value the integers of the
\* model cannot hold is kept as the pair of its operands.
NanosecondTs(ts_sec, ts_usec, mult) ==
    IF ts_sec <= 1 /\ ts_usec <= 1000000
    THEN ts_sec * 1000000000 + ts_usec * mult
    ELSE <<ts_sec, ts_usec * 1>>

PacketsInit ==
    \E recs \in RecordSeqs, nano \in BOOLEAN, be \in BOOLEAN :
    \E cut \in 0..Min(MaxCut, Len(EncodeRecords(recs, 1, be))) :
        /\ pcap_file = PcapFile(recs, nano, be, cut)
        /\ reader = [pos |-> 0, last |-> "none"]
        /\ pk_pc = "new"
        /\ header_bytes = Zeros(24)
        /\ n_header_bytes_read = 0
        /\ ts_usec_multiplier = 0
        /\ parse = "unset"
        /\ buffer = <<>>
        /\ reader_exhausted = FALSE
        /\ pk_items = <<>>
        /\ pk_ret = "new"

\* A file with a record that the frame parser rejects
PacketsRejectingInit ==
    \E recs \in RecordSeqs \ {<<>>}, nano \in BOOLEAN, be \in BOOLEAN :
    \E rej \in 1..Len(recs) :
        /\ pcap_file = [PcapFile(recs, nano, be, 0) EXCEPT !.rejected = rej]
        /\ reader = [pos |-> 0, last |-> "none"]
        /\ pk_pc = "new"
        /\ header_bytes = Zeros(24)
        /\ n_header_bytes_read = 0
        /\ ts_usec_multiplier = 0
        /\ parse = "unset"
        /\ buffer = <<>>
        /\ reader_exhausted = FALSE
        /\ pk_items = <<>>
        /\ pk_ret = "new"

\* Bytes the reader has not handed out yet
ReaderLeft == Len(pcap_file.bytes) - reader.pos

\* The next k bytes of the reader
ReaderTake(k) == SubSeq(pcap_file.bytes, reader.pos + 1, reader.pos + k)

\* Packets::new. One read into header_bytes[n_header_bytes_read..], of any
\* length the reader chooses, then parse_pcap_header on all 24 bytes of the
\* array: that parse is never Incomplete, so the loop runs once.
PacketsNew ==
    /\ pk_pc = "new"
    /\ \E k \in HeaderReadSizes \cap (0..Min(24 - n_header_bytes_read, ReaderLeft)),
          last \in {"ok", "err"} :
          /\ (k = 0 /\ last = "ok") => ReaderLeft = 0
          /\ last = "err" => k = 0
          /\ reader' = [pos |-> reader.pos + k,
                        last |-> IF last = "ok" /\ k = 0 THEN "eof" ELSE last]
          /\ IF last = "err"
             THEN /\ pk_pc' = "failed"
                  /\ UNCHANGED <<header_bytes, n_header_bytes_read,
                                 ts_usec_multiplier, parse>>
             ELSE LET hb == [i \in 1..24 |->
                                IF n_header_bytes_read < i
                                   /\ i <= n_header_bytes_read + k
                                THEN ReaderTake(k)[i - n_header_bytes_read]
                                ELSE header_bytes[i]]
                      header == ParsePcapHeader(hb)
                  IN  /\ header_bytes' = hb
                      /\ n_header_bytes_read' = n_header_bytes_read + k
                      /\ IF header.kind = "ok"
                         THEN /\ pk_pc' = "stream"
                              /\ ts_usec_multiplier' =
                                     Multiplier(header.is_nanosecond_precision)
                              /\ parse' = IF header.is_bigendian THEN "be" ELSE "le"
                         ELSE /\ pk_pc' = "failed"
                              /\ UNCHANGED <<ts_usec_multiplier, parse>>
    /\ UNCHANGED <<pcap_file, buffer, reader_exhausted, pk_items, pk_ret, notPcap>>

\* The item of lines 96-106 for a parsed record of buf
FrameItem(buf, packet) ==
    [ts |-> NanosecondTs(packet.ts_sec, packet.ts_usec, ts_usec_multiplier),
     frame |-> SubSeq(buf, 1, Len(buf) - packet.rem_len)]

\* Whether (self.parse)(buf) is Err(Error) or Err(Failure): buf starts with
\* the record of the file that the parser rejects
ParseRejects(buf, p) ==
    LET f == ParseFrame(buf, p)
        r == pcap_file.rejected
    IN  /\ r > 0
        /\ f.kind = "ok"
        /\ SubSeq(buf, 1, Len(buf) - f.rem_len)
               = EncodeRecord(pcap_file.records[r], r, pcap_file.be)

\* The item of lines 108-110, with the bytes the buffer holds when it is made
ErrorItem(buf) == [error |-> "Error", unconsumed |-> buf]

IsErrorItem(item) == "error" \in DOMAIN item

\* The error items yielded so far
ErrorItems == SelectSeq(pk_items, IsErrorItem)

\* Packets::poll_next. The loop parses the buffer and, while the record is
\* incomplete, reads into the spare capacity of the buffer (bytes_mut leaves
\* it non-empty). Over the reads of one poll the reader hands out k bytes;
\* `last` is its answer to the final poll_read. A parse error is returned as
\* an item, the buffer left as it is.
PacketsPollNext ==
    /\ pk_pc = "stream"
    /\ Len(ErrorItems) < MaxParseErrors
    /\ IF buffer = <<>> /\ reader_exhausted
       THEN /\ pk_ret' = "done"
            /\ UNCHANGED <<reader, buffer, pk_items>>
       ELSE IF ParseRejects(buffer, parse)
       THEN /\ pk_items' = Append(pk_items, ErrorItem(buffer))
            /\ pk_ret' = "error"
            /\ UNCHANGED <<reader, buffer>>
       ELSE IF ParseFrame(buffer, parse).kind = "ok"
       THEN LET packet == ParseFrame(buffer, parse)
            IN  /\ pk_items' = Append(pk_items, FrameItem(buffer, packet))
                /\ buffer' = SubSeq(buffer, Len(buffer) - packet.rem_len + 1,
                                    Len(buffer))
                /\ pk_ret' = "item"
                /\ UNCHANGED reader
       ELSE \E k \in 0..ReaderLeft, last \in {"ok", "eof", "err", "pending"} :
            LET buf == buffer \o ReaderTake(k)
                packet == ParseFrame(buf, parse)
            IN  /\ last = "ok" <=> (k >= 1 /\ packet.kind = "ok")
                /\ last = "eof" => k = ReaderLeft
                /\ reader' = [pos |-> reader.pos + k, last |-> last]
                /\ IF last = "ok" /\ ParseRejects(buf, parse)
                   THEN /\ pk_items' = Append(pk_items, ErrorItem(buf))
                        /\ buffer' = buf
                        /\ pk_ret' = "error"
                   ELSE IF last = "ok"
                   THEN /\ pk_items' = Append(pk_items, FrameItem(buf, packet))
                        /\ buffer' = SubSeq(buf, Len(buf) - packet.rem_len + 1,
                                            Len(buf))
                        /\ pk_ret' = "item"
                   ELSE /\ buffer' = buf
                        /\ pk_ret' = IF last = "eof" THEN "done" ELSE "pending"
                        /\ UNCHANGED pk_items
    /\ UNCHANGED <<pcap_file, pk_pc, header_bytes, n_header_bytes_read,
                   ts_usec_multiplier, parse, reader_exhausted, notPcap>>

PacketsNext == PacketsNew \/ PacketsPollNext

(***************************************************************************)
(* Properties of the pcap parser (under SpecPackets)                       *)
(***************************************************************************)

\* The records of the file, as they are on disk, one frame each
RECURSIVE DiskFrames(_, _, _)
DiskFrames(recs, i, be) ==
    IF i > Len(recs) THEN <<>>
    ELSE <<EncodeRecord(recs[i], i, be)>> \o DiskFrames(recs, i + 1, be)

\* The frames emitted so far
EmittedFrames == [i \in 1..Len(pk_items) |-> pk_items[i].frame]

\* C14: when the reader is at its end while the buffer holds a partial
\* record, the stream does not complete without a final error item: a poll
\* that reports completion with bytes left in the buffer has yielded an error.
C14_TruncatedTailReported ==
    (n_header_bytes_read = 24 /\ pk_ret = "done" /\ buffer # <<>>) =>
        /\ pk_items # <<>>
        /\ "error" \in DOMAIN pk_items[Len(pk_items)]

\* C15: when the reader's poll_read has answered with an I/O error, poll_next
\* does not answer pending.
C15_ReadErrorNotPending ==
    (pk_pc = "stream" /\ n_header_bytes_read = 24 /\ reader.last = "err") =>
        pk_ret # "pending"

\* C16: for a well-formed file the emitted frames are, in order, the records
\* as they are on disk, and once the stream has completed they are all of
\* them: their concatenation is the reader's bytes after the 24-byte header.
C16_FramesVerbatim ==
    (pk_pc = "stream" /\ pcap_file.cut = 0) =>
        /\ IsPrefix(EmittedFrames,
                    DiskFrames(pcap_file.records, 1, pcap_file.be))
        /\ pk_ret = "done" =>
               Concat(EmittedFrames)
                   = SubSeq(pcap_file.bytes, 25, Len(pcap_file.bytes))

\* C16 restricted to the runs in which the one read of Packets::new returned
\* all 24 bytes of the header
FramesVerbatimAfterWholeHeader ==
    n_header_bytes_read = 24 => C16_FramesVerbatim

\* C17: every emitted timestamp is ts_sec * 1_000_000_000 + ts_frac *
\* multiplier of the record it was parsed from, with multiplier 1000 for a
\* microsecond file and 1 for a nanosecond file; after a whole header the
\* i-th timestamp is that of the i-th record of the file. So the microsecond
\* record {1, 500} is emitted as 1_000_500_000 and the nanosecond record
\* {1, 600000} as 1_000_600_000, which is later.
C17_NanosecondTimestamps ==
    LET mult == IF pcap_file.nano THEN 1 ELSE 1000
    IN  /\ \A i \in 1..Len(pk_items) :
               LET ts_sec == U32(SubSeq(pk_items[i].frame, 1, 4), pcap_file.be)
                   ts_frac == U32(SubSeq(pk_items[i].frame, 5, 8), pcap_file.be)
               IN  (ts_sec <= 1 /\ ts_frac <= 1000000) =>
                       pk_items[i].ts = ts_sec * 1000000000 + ts_frac * mult
        /\ n_header_bytes_read = 24 =>
               \A i \in 1..Len(pk_items) :
                   LET r == pcap_file.records[i]
                   IN  /\ pk_items[i].ts = r.ts_sec * 1000000000 + r.ts_frac * mult
                       /\ (~pcap_file.nano /\ r.ts_sec = 1 /\ r.ts_frac = 500) =>
                              pk_items[i].ts = 1000500000
                       /\ (pcap_file.nano /\ r.ts_sec = 1 /\ r.ts_frac = 600000) =>
                              pk_items[i].ts = 1000600000
        /\ 1000500000 < 1000600000

\* C17 witness: a microsecond file whose record {1, 500} has been emitted
\* after a record was emitted before it
C17_Witness ==
    /\ n_header_bytes_read = 24
    /\ ~pcap_file.nano
    /\ Len(pk_items) = 2
    /\ pcap_file.records[2].ts_frac = 500
    /\ pk_items[2].ts = 1000500000

\* C27: Packets::new consumes exactly the first 24 bytes of the reader and
\* validates the header on those 24 bytes before any packet is parsed,
\* however the reader splits its data across reads: a stream exists only
\* after 24 bytes were read into header_bytes, which then are the first 24
\* bytes of the file.
C27_HeaderConsumedWhole ==
    pk_pc = "stream" =>
        /\ n_header_bytes_read = 24
        /\ header_bytes = SubSeq(pcap_file.bytes, 1, 24)

\* The stream of a well-formed file was made after a first read of fewer than
\* 24 bytes, and a frame was emitted that starts with bytes of the file header
HeaderBytesParsedAsPacket ==
    /\ pk_pc = "stream"
    /\ pcap_file.cut = 0
    /\ n_header_bytes_read < 24
    /\ pk_items # <<>>
    /\ pk_items[1].frame =
           SubSeq(pcap_file.bytes, n_header_bytes_read + 1,
                  n_header_bytes_read + Len(pk_items[1].frame))

\* C28: when the reader is at EOF and the buffer is empty poll_next yields
\* completion without an error item, and every later poll yields completion
\* too.
C28_CompletionIsFinal ==
    [][(pk_pc = "stream" /\ n_header_bytes_read = 24 /\ pk_ret = "done"
            /\ buffer = <<>>) => pk_ret' = "done"]_vars

\* The first half of C28: a poll that finds the reader at EOF with an empty
\* buffer answers completion, and no item is an error
EofWithEmptyBufferCompletes ==
    /\ (pk_pc = "stream" /\ reader.last = "eof" /\ buffer = <<>>) => pk_ret = "done"
    /\ ErrorItems = <<>>

\* Completion was answered on an empty buffer and reader_exhausted is not set:
\* the next poll reads from the reader again
CompletedButNotExhausted ==
    /\ pk_pc = "stream"
    /\ n_header_bytes_read = 24
    /\ pk_ret = "done"
    /\ buffer = <<>>
    /\ ~reader_exhausted

\* C29: after poll_next has yielded a parse error item, continued polling
\* makes progress towards completion: the next poll does not yield the same
\* error for the same unconsumed bytes.
C29_ErrorThenProgress ==
    [][pk_ret = "error" => ~(pk_ret' = "error" /\ buffer' = buffer)]_vars

\* Two error items in a row were yielded for the same unconsumed bytes, which
\* the buffer still holds
SameErrorAgain ==
    /\ pk_ret = "error"
    /\ Len(pk_items) >= 2
    /\ IsErrorItem(pk_items[Len(pk_items)])
    /\ pk_items[Len(pk_items) - 1] = pk_items[Len(pk_items)]
    /\ pk_items[Len(pk_items)].unconsumed = buffer

(***************************************************************************)
(* S3 object chunks: ObjectChunks::new and ObjectChunks::poll_next         *)
(* (s3/mod.rs)                                                             *)
(***************************************************************************)
MaxUriRest == 3       \* characters of a uri after its "s3://" prefixes: 0..MaxUriRest
MaxChunk == 3         \* chunk_size: 1..MaxChunk
MaxLength == 6        \* content_length of the object: 0..MaxLength
MaxPendingPolls == 2  \* polls answered while the HEAD request is outstanding

URI_PREFIX == <<"s", "3", ":", "/", "/">>

\* str::trim_start_matches: the prefix is removed as often as it is there
RECURSIVE TrimStartMatches(_, _)
TrimStartMatches(uri, pat) ==
    IF Len(pat) <= Len(uri) /\ SubSeq(uri, 1, Len(pat)) = pat
    THEN TrimStartMatches(SubSeq(uri, Len(pat) + 1, Len(uri)), pat)
    ELSE uri

\* str::find: the index (from 0) of the first ch, <<>> for None
Find(uri, ch) ==
    IF \E i \in 1..Len(uri) : uri[i] = ch
    THEN <<(CHOOSE i \in 1..Len(uri) :
               uri[i] = ch /\ \A j \in 1..(i - 1) : uri[j] # ch) - 1>>
    ELSE <<>>

\* str::split_at(mid): the first mid characters, and the rest
SplitAt(uri, mid) == <<SubSeq(uri, 1, mid), SubSeq(uri, mid + 1, Len(uri))>>

\* ObjectChunks::new as a function of the uri: Ok with bucket and key, or Err
ObjectChunksNewResult(uri0) ==
    LET uri == TrimStartMatches(uri0, URI_PREFIX)
        bucket_delimiter_index == Find(uri, "/")
    IN  IF bucket_delimiter_index # <<>>
        THEN LET bk == SplitAt(uri, bucket_delimiter_index[1])
             IN  IF Len(bk[2]) < 1
                 THEN [ok |-> FALSE, error |-> "Missing key"]
                 ELSE [ok |-> TRUE, bucket |-> bk[1], key |-> Tail(bk[2])]
        ELSE [ok |-> FALSE, error |-> "Missing '/' bucket delimiter"]

\* The uris of the model: "s3://" none, once or twice, then up to MaxUriRest
\* characters of '/', 'b' and 'k'
UriRests == UNION {[1..l -> {"/", "b", "k"}] : l \in 0..MaxUriRest}

Uris == {p \o r : p \in {<<>>, URI_PREFIX, URI_PREFIX \o URI_PREFIX}, r \in UriRests}

S3Init ==
    \E uri \in Uris, c \in 1..MaxChunk, len \in 0..MaxLength, fails \in BOOLEAN :
        /\ s3_uri = uri
        /\ s3_object = [content_length |-> len, head_fails |-> fails]
        /\ oc_pc = "new"
        /\ bucket = <<>>
        /\ key = <<>>
        /\ next_chunk_start = 0
        /\ chunk_size = c
        /\ file_size = <<>>
        /\ head_object_request = "none"
        /\ oc_hist = [requests |-> <<>>, pending_polls |-> 0]
        /\ oc_ret = "new"

\* ObjectChunks::new(uri, chunk_size)
ObjectChunksNew ==
    /\ oc_pc = "new"
    /\ LET res == ObjectChunksNewResult(s3_uri)
       IN  IF res.ok
           THEN /\ oc_pc' = "stream"
                /\ bucket' = res.bucket
                /\ key' = res.key
           ELSE /\ oc_pc' = "error"
                /\ UNCHANGED <<bucket, key>>
    /\ UNCHANGED <<s3_uri, s3_object, next_chunk_start, chunk_size, file_size,
                   head_object_request, oc_hist, oc_ret, notS3>>

\* A HEAD request made on every poll
HeadRequestNeededAlways(request) == TRUE

\* head_object_request.is_none()
HeadRequestNeeded(request) == request = "none"

\* An end test that also stops at next_chunk_start = file_size
StreamEndedAtLength(start, size) == start >= size

\* *next_chunk_start > file_size: done streaming the file
StreamEnded(start, size) == start > size

\* The Range header of the chunk request, as its first and last byte
ChunkRange(start, size) == [op |-> "GET", first |-> start, last |-> start + (size - 1)]

\* S3 answers the HEAD request
HeadObjectResponse ==
    /\ head_object_request = "outstanding"
    /\ head_object_request' = "ready"
    /\ UNCHANGED <<s3_uri, s3_object, oc_pc, bucket, key, next_chunk_start,
                   chunk_size, file_size, oc_hist, oc_ret, notS3>>

\* ObjectChunks::poll_next
ObjectChunksPollNext ==
    /\ oc_pc = "stream"
    /\ LET make_head == file_size = <<>> /\ HeadRequestNeeded(head_object_request)
           request == IF make_head THEN "outstanding" ELSE head_object_request
           requests == IF make_head THEN Append(oc_hist.requests, [op |-> "HEAD"])
                       ELSE oc_hist.requests
       IN  IF file_size = <<>> /\ request = "outstanding"
           THEN \* ready!: the HEAD request is not answered yet
                /\ oc_hist.pending_polls < MaxPendingPolls
                /\ head_object_request' = request
                /\ oc_hist' = [requests |-> requests,
                               pending_polls |-> oc_hist.pending_polls + 1]
                /\ oc_ret' = "pending"
                /\ UNCHANGED <<oc_pc, next_chunk_start, file_size>>
           ELSE IF file_size = <<>> /\ s3_object.head_fails
           THEN \* object_metadata.unwrap() panics
                /\ head_object_request' = "taken"
                /\ oc_pc' = "panicked"
                /\ oc_ret' = "panic"
                /\ oc_hist' = [oc_hist EXCEPT !.requests = requests]
                /\ UNCHANGED <<next_chunk_start, file_size>>
           ELSE LET size == IF file_size = <<>> THEN s3_object.content_length
                            ELSE file_size[1]
                IN  /\ file_size' = <<size>>
                    /\ head_object_request' =
                           IF file_size = <<>> THEN "taken" ELSE head_object_request
                    /\ IF StreamEnded(next_chunk_start, size)
                       THEN /\ oc_ret' = "done"
                            /\ oc_hist' = [oc_hist EXCEPT !.requests = requests]
                            /\ UNCHANGED next_chunk_start
                       ELSE /\ oc_hist' = [oc_hist EXCEPT !.requests =
                                   Append(requests,
                                          ChunkRange(next_chunk_start, chunk_size))]
                            /\ next_chunk_start' = next_chunk_start + chunk_size
                            /\ oc_ret' = "item"
                    /\ UNCHANGED oc_pc
    /\ UNCHANGED <<s3_uri, s3_object, bucket, key, chunk_size, notS3>>

S3Next == ObjectChunksNew \/ HeadObjectResponse \/ ObjectChunksPollNext

(***************************************************************************)
(* Properties of ObjectChunks (under SpecS3)                               *)
(***************************************************************************)
IsHead(r) == r.op = "HEAD"

IsGet(r) == r.op = "GET"

\* The ranged GET requests made so far, in order
Gets == SelectSeq(oc_hist.requests, IsGet)

\* C18: one HEAD request per object, made by the first poll; no ranged GET is
\* constructed before the HEAD response has set file_size; while the HEAD
\* request is outstanding the poll answers pending.
C18_OneHeadBeforeGets ==
    /\ Len(SelectSeq(oc_hist.requests, IsHead)) <= 1
    /\ oc_ret # "new" => (oc_hist.requests # <<>> /\ IsHead(oc_hist.requests[1]))
    /\ Gets # <<>> => (file_size = <<s3_object.content_length>>
                       /\ head_object_request = "taken")
    /\ head_object_request = "outstanding" => oc_ret = "pending"

\* C18 witness: two polls were answered pending while the HEAD request was
\* outstanding, and two ranged GETs followed the one HEAD
C18_Witness ==
    /\ oc_hist.pending_polls >= 2
    /\ Len(Gets) >= 2
    /\ Len(oc_hist.requests) = Len(Gets) + 1

\* The ranges of the offsets 0, c, 2c, ... up to content_length
ExpectedRanges(len, c) ==
    [i \in 1..((len \div c) + 1) |->
        [op |-> "GET", first |-> (i - 1) * c, last |-> i * c - 1]]

\* C19: the ranged GETs are those of the offsets 0, c, 2c, ... <= content_length
\* in increasing order, each for offset..offset+c-1: contiguous, not
\* overlapping, and when the stream ends every byte of the object is in
\* exactly one of them.
C19_ChunkRanges ==
    /\ IsPrefix(Gets, ExpectedRanges(s3_object.content_length, chunk_size))
    /\ \A i \in 1..Len(Gets) :
           /\ Gets[i].first = (IF i = 1 THEN 0 ELSE Gets[i - 1].last + 1)
           /\ Gets[i].first <= s3_object.content_length
           /\ Gets[i].last = Gets[i].first + chunk_size - 1
    /\ oc_ret = "done" =>
           /\ Gets = ExpectedRanges(s3_object.content_length, chunk_size)
           /\ \A byte \in 0..(s3_object.content_length - 1) :
                  Cardinality({i \in 1..Len(Gets) :
                                  Gets[i].first <= byte /\ byte <= Gets[i].last}) = 1

\* C19 witness: the stream has ended after three chunks of two bytes or more,
\* the object's length being a multiple of the chunk size
C19_Witness ==
    /\ oc_ret = "done"
    /\ chunk_size >= 2
    /\ Len(Gets) >= 3
    /\ s3_object.content_length % chunk_size = 0

\* C26: every ranged GET starts at an offset strictly smaller than
\* content_length, so that its range holds at least one byte of the object,
\* also when content_length is a multiple of chunk_size and when it is 0.
C26_GetStartsInsideObject ==
    \A i \in 1..Len(Gets) : Gets[i].first < s3_object.content_length

\* The same when content_length is not a multiple of chunk_size
GetStartsInsideUnalignedObject ==
    s3_object.content_length % chunk_size # 0 =>
        \A i \in 1..Len(Gets) : Gets[i].first < s3_object.content_length

\* A ranged GET was made for the offset content_length, past the last byte
GetAtContentLength ==
    /\ Gets # <<>>
    /\ Gets[Len(Gets)].first = s3_object.content_length
    /\ s3_object.content_length % chunk_size = 0

\* A uri (after its prefix) with a '/' and at least one character after the
\* first '/'
HasSeparatorAndKey(uri0) ==
    LET uri == TrimStartMatches(uri0, URI_PREFIX)
    IN  \E i \in 1..Len(uri) :
            /\ uri[i] = "/"
            /\ \A j \in 1..(i - 1) : uri[j] # "/"
            /\ i < Len(uri)

\* C20: ObjectChunks::new returns an error for a uri without a '/' after the
\* bucket and for one without a key after the '/', and a stream only for a
\* uri that has both the separator and a non-empty key.
C20_InvalidUriRejected ==
    /\ oc_pc = "error" => ~HasSeparatorAndKey(s3_uri)
    /\ oc_pc \in {"stream", "panicked"} => (HasSeparatorAndKey(s3_uri) /\ key # <<>>)

(***************************************************************************)
(* The merge_pcaps program: one pipeline per input file, and main, which   *)
(* builds the tree over the PacketStreams, writes the header and pops      *)
(* (bin/merge_pcaps.rs, lib.rs)                                            *)
(***************************************************************************)
MaxInputs == 2      \* input files: 1..MaxInputs
MergeTotal == 3     \* packets over all input files

\* Option<(u64, Bytes)>::None as an item
NoPacket == [some |-> FALSE, ts |-> 0, src |-> 0, seq |-> 0]

\* The packets of input file i, given their timestamps
FilePackets(i, tss) ==
    [k \in 1..Len(tss) |-> [some |-> TRUE, ts |-> tss[k], src |-> i, seq |-> k]]

\* A header of the same shape whose magic is the microsecond one
PCAP_HDR_USEC ==
    [some |-> FALSE, ts |-> 0, src |-> 0, seq |-> 0 - 1,
     bytes |-> <<212, 195, 178, 161, 2, 0, 4, 0, 0, 0, 0, 0,
                 0, 0, 0, 0, 0, 0, 4, 0, 1, 0, 0, 0>>]

\* The fixed header main writes before the packets, as an item of the output
\* that is no packet, with its bytes
PCAP_HDR_NSEC ==
    [some |-> FALSE, ts |-> 0, src |-> 0, seq |-> 0 - 1,
     bytes |-> <<77, 60, 178, 161, 2, 0, 4, 0, 0, 0, 0, 0,
                 0, 0, 0, 0, 0, 0, 4, 0, 1, 0, 0, 0>>]

MergeInit ==
    \E n \in 1..MaxInputs :
    \E v \in InputVectors(n, MergeTotal), bad \in 0..n :
        \* at most one input fails: input `bad`, none if bad = n
        /\ pcaps = [i \in 0..(n - 1) |->
                       [packets |-> FilePackets(i, v[i + 1]), fails |-> i = bad]]
        /\ pipelines = [i \in 0..(n - 1) |->
                           [rest |-> FilePackets(i, v[i + 1]), pc |-> "next",
                            batch |-> <<>>, channel |-> <<>>, closed |-> FALSE,
                            cur |-> <<>>, ended |-> FALSE, sent |-> <<>>]]
        /\ packet_streams = [i \in 0..(n - 1) |-> [peeked |-> <<>>, end_seen_at |-> 0 - 1]]
        /\ main_pc = "new"
        /\ stdout = <<>>
        /\ exit_status = "running"

\* packet_stream.next() in the producer task of input i
MergeProducerBatch ==
    \E i \in DOMAIN pipelines :
    /\ pipelines[i].pc = "next"
    /\ \E k \in 1..Min(ReadyChunksCap, Len(pipelines[i].rest)) :
           pipelines' = [pipelines EXCEPT ![i] =
               [@ EXCEPT !.pc = "send",
                         !.batch = ReadyChunk(pipelines[i].rest, k),
                         !.rest = SubSeq(pipelines[i].rest, k + 1,
                                         Len(pipelines[i].rest))]]
    /\ UNCHANGED <<pcaps, packet_streams, main_pc, stdout, exit_status,
                   treeVars, notMerge>>

\* The file cannot be opened, Packets::new fails or the parser yields an
\* error: unwrap panics in the detached task. The executor thread catches the
\* panic; the task is dropped and with it the Sender, which closes the channel.
MergeProducerPanic ==
    \E i \in DOMAIN pipelines :
    /\ pipelines[i].pc = "next"
    /\ pcaps[i].fails
    /\ Len(pipelines[i].rest) < ReadyChunksCap
    /\ pipelines' = [pipelines EXCEPT ![i] =
           [@ EXCEPT !.pc = "panicked", !.rest = <<>>, !.closed = TRUE]]
    /\ UNCHANGED <<pcaps, packet_streams, main_pc, stdout, exit_status,
                   treeVars, notMerge>>

\* The parser's stream has ended: channel.close()
MergeProducerClose ==
    \E i \in DOMAIN pipelines :
    /\ pipelines[i].pc = "next"
    /\ pipelines[i].rest = <<>>
    /\ ~pcaps[i].fails
    /\ pipelines' = [pipelines EXCEPT ![i] =
           [@ EXCEPT !.pc = "closed", !.closed = TRUE]]
    /\ UNCHANGED <<pcaps, packet_streams, main_pc, stdout, exit_status,
                   treeVars, notMerge>>

\* channel.send(packets).await completes
MergeProducerSend ==
    \E i \in DOMAIN pipelines :
    /\ pipelines[i].pc = "send"
    /\ Len(pipelines[i].channel) < ChannelCap
    /\ pipelines' = [pipelines EXCEPT ![i] =
           [@ EXCEPT !.pc = "next", !.batch = <<>>,
                     !.channel = ChannelSend(pipelines[i].channel, pipelines[i].batch),
                     !.sent = @ \o pipelines[i].batch]]
    /\ UNCHANGED <<pcaps, packet_streams, main_pc, stdout, exit_status,
                   treeVars, notMerge>>

\* NextPacket of a receiver that does not see the channel close
NextPacketNoClose(pl) ==
    IF pl.cur # <<>>
    THEN [blocked |-> FALSE, item |-> Head(pl.cur),
          pl |-> [pl EXCEPT !.cur = FlattenRest(pl.cur)]]
    ELSE IF pl.channel # <<>>
    THEN [blocked |-> FALSE, item |-> Head(Head(pl.channel)),
          pl |-> [pl EXCEPT !.cur = FlattenRest(Head(pl.channel)),
                            !.channel = Tail(pl.channel)]]
    ELSE [blocked |-> TRUE, item |-> NoPacket, pl |-> pl]

\* block_on(receiver.map(iter).flatten()).next() on a pipeline: the item, the
\* pipeline after it, or blocked while the channel is empty and open
NextPacket(pl) ==
    IF pl.cur # <<>>
    THEN [blocked |-> FALSE, item |-> Head(pl.cur),
          pl |-> [pl EXCEPT !.cur = FlattenRest(pl.cur)]]
    ELSE IF pl.channel # <<>>
    THEN [blocked |-> FALSE, item |-> Head(Head(pl.channel)),
          pl |-> [pl EXCEPT !.cur = FlattenRest(Head(pl.channel)),
                            !.channel = Tail(pl.channel)]]
    ELSE IF pl.closed
    THEN [blocked |-> FALSE, item |-> NoPacket, pl |-> [pl EXCEPT !.ended = TRUE]]
    ELSE [blocked |-> TRUE, item |-> NoPacket, pl |-> pl]

\* A peek_timestamp that answers 0 at the end of the stream
PeekTimestampZeroAtEnd(item) == IF item.some THEN item.ts ELSE 0

\* PacketStream::peek_timestamp on the peeked item
PeekTimestamp(item) == IF item.some THEN item.ts ELSE MAX_U64

\* The head timestamps as Tree::new sees the input streams
PeekedStreams(items) ==
    [i \in DOMAIN items |->
        IF PeekTimestamp(items[i]) = MAX_U64 THEN <<>>
        ELSE <<PeekTimestamp(items[i])>>]

\* The number of packets written when main first saw the end of the stream
EndSeen(ps, item, at) ==
    IF ~item.some /\ ps.end_seen_at < 0 THEN at ELSE ps.end_seen_at

\* Tree::new(packet_streams): peeks every stream, each peek waiting for the
\* first packet or the end of its input
MainTreeNew ==
    /\ main_pc = "new"
    /\ \A i \in DOMAIN pipelines : ~NextPacket(pipelines[i]).blocked
    /\ LET nx == [i \in DOMAIN pipelines |-> NextPacket(pipelines[i])]
           items == [i \in DOMAIN pipelines |-> nx[i].item]
           t == TreeNew(PeekedStreams(items))
       IN  /\ pipelines' = [i \in DOMAIN pipelines |-> nx[i].pl]
           /\ packet_streams' = [i \in DOMAIN pipelines |->
                  [peeked |-> <<items[i]>>,
                   end_seen_at |-> EndSeen(packet_streams[i], items[i], 0)]]
           /\ values' = t.values
           /\ nodes' = t.nodes
           /\ winning_value_index' = t.winning_value_index
           /\ needs_updating' = t.needs_updating
    /\ main_pc' = "header"
    /\ UNCHANGED <<pcaps, stdout, exit_status, inputs, input_streams, popped,
                   pop_ret, none_pops, comparisons, notMerge>>

\* writer.write_all(PCAP_HDR_NSEC)
MainWriteHeader ==
    /\ main_pc = "header"
    /\ stdout' = Append(stdout, PCAP_HDR_NSEC)
    /\ main_pc' = "pop"
    /\ UNCHANGED <<pcaps, pipelines, packet_streams, exit_status, treeVars, notMerge>>

\* One turn of `while let Some((ts, packet)) = merger.pop()`: Tree::pop, with
\* its peek of the stream popped last, then write_all(&packet); on None the
\* flush and the return from main.
MainPop ==
    /\ main_pc = "pop"
    /\ LET w0 == winning_value_index
           peek == needs_updating /\ packet_streams[w0].peeked = <<>>
           nx == IF peek THEN NextPacket(pipelines[w0])
                 ELSE [blocked |-> FALSE, item |-> NoPacket, pl |-> pipelines[w0]]
           pss == IF peek
                  THEN [packet_streams EXCEPT ![w0] =
                           [peeked |-> <<nx.item>>,
                            end_seen_at |-> EndSeen(@, nx.item, Len(stdout) - 1)]]
                  ELSE packet_streams
           vals1 == IF needs_updating
                    THEN [values EXCEPT ![w0] = PeekTimestamp(pss[w0].peeked[1])]
                    ELSE values
           u == IF needs_updating
                THEN update_winner(w0, vals1, nodes, w0)
                ELSE [nodes |-> nodes, winning_value_index |-> w0,
                      comparisons |-> 0]
           w == u.winning_value_index
       IN  /\ ~nx.blocked
           /\ pipelines' = [pipelines EXCEPT ![w0] = nx.pl]
           /\ values' = vals1
           /\ nodes' = u.nodes
           /\ winning_value_index' = w
           /\ comparisons' = u.comparisons
           /\ IF vals1[w] = MAX_U64
              THEN /\ pop_ret' = "none"
                   /\ none_pops' = CountNone(none_pops)
                   /\ packet_streams' = pss
                   /\ main_pc' = "exit"
                   /\ exit_status' = "success"
                   /\ UNCHANGED <<needs_updating, popped, stdout>>
              ELSE /\ needs_updating' = TRUE
                   /\ packet_streams' = [pss EXCEPT ![w].peeked = <<>>]
                   /\ IF pss[w].peeked[1].some
                      THEN /\ pop_ret' = "some"
                           /\ UNCHANGED none_pops
                           /\ popped' = Append(popped,
                                  [stream |-> w, ts |-> pss[w].peeked[1].ts])
                           /\ stdout' = Append(stdout, pss[w].peeked[1])
                           /\ UNCHANGED <<main_pc, exit_status>>
                      ELSE /\ pop_ret' = "none"
                           /\ none_pops' = CountNone(none_pops)
                           /\ main_pc' = "exit"
                           /\ exit_status' = "success"
                           /\ UNCHANGED <<popped, stdout>>
    /\ UNCHANGED <<pcaps, inputs, input_streams, notMerge>>

MergeNext ==
    \/ MergeProducerBatch
    \/ MergeProducerPanic
    \/ MergeProducerClose
    \/ MergeProducerSend
    \/ MainTreeNew
    \/ MainWriteHeader
    \/ MainPop

\* A step of the producer task of input i
MergeProducerTask(i) ==
    /\ i \in DOMAIN pipelines
    /\ \/ MergeProducerBatch
       \/ MergeProducerPanic
       \/ MergeProducerClose
       \/ MergeProducerSend
    /\ pipelines'[i] # pipelines[i]

\* A step of the main thread
MainThread == MainTreeNew \/ MainWriteHeader \/ MainPop

\* The executor runs every spawned task that can run, and the main thread,
\* blocked in block_on, runs when the channel it waits on has an item or closes
MergeFairness ==
    /\ \A i \in 0..(MaxInputs - 1) : WF_vars(MergeProducerTask(i))
    /\ WF_vars(MainThread)

(***************************************************************************)
(* Properties of the merge_pcaps program (under SpecMerge)                 *)
(***************************************************************************)
IsSome(item) == item.some

\* The packets written so far, in order
Written == SelectSeq(stdout, IsSome)

\* The packets of input i among them
RECURSIVE PacketsOf(_, _)
PacketsOf(out, i) ==
    IF out = <<>> THEN <<>>
    ELSE (IF Head(out).some /\ Head(out).src = i THEN <<Head(out)>> ELSE <<>>)
             \o PacketsOf(Tail(out), i)

\* C12: an error on an input ends the output: once main, on its receive path,
\* has come to the end of an input whose task failed, no further packet is
\* written, and the run does not end in success.
C12_FailureEndsRun ==
    \A i \in DOMAIN pipelines :
        (pipelines[i].pc = "panicked" /\ packet_streams[i].end_seen_at >= 0) =>
            /\ Len(Written) = packet_streams[i].end_seen_at
            /\ exit_status # "success"

\* C13: a failed input is an exhausted input. The packets written from each
\* input are always a prefix of its file, the output is in timestamp order,
\* and when pop has returned None the packets written from an input are
\* exactly those its pipeline delivered: all of the file for an input that
\* did not fail, the prefix sent before the failure for one that did.
C13_FailedInputIsExhausted ==
    /\ \A i \in DOMAIN pcaps :
           /\ IsPrefix(PacketsOf(stdout, i), pipelines[i].sent)
           /\ IsPrefix(pipelines[i].sent, pcaps[i].packets)
    /\ \A k \in 1..(Len(Written) - 1) : Written[k].ts <= Written[k + 1].ts
    /\ main_pc = "exit" =>
           /\ pop_ret = "none"
           /\ \A i \in DOMAIN pcaps :
                  /\ pipelines[i].pc \in {"closed", "panicked"}
                  /\ PacketsOf(stdout, i) = pipelines[i].sent
                  /\ ~pcaps[i].fails => PacketsOf(stdout, i) = pcaps[i].packets

\* C13 witness: pop has returned None after input 0 failed having delivered a
\* packet and lost one, and a packet of input 1 was written last
C13_Witness ==
    /\ main_pc = "exit"
    /\ DOMAIN pcaps = {0, 1}
    /\ pipelines[0].pc = "panicked"
    /\ pipelines[0].sent # <<>>
    /\ Len(pipelines[0].sent) < Len(pcaps[0].packets)
    /\ stdout[Len(stdout)].src = 1
    /\ packet_streams[0].end_seen_at < Len(Written)

\* C21: the output is the 24-byte nanosecond little-endian pcap header, once
\* and first, then the popped packets in pop order, and nothing else: nothing
\* is written before the header, the header is there as soon as the pop loop
\* starts and still when main returns without a packet, and the k-th item
\* after it is the packet of the k-th pop, the next record of its input file.
C21_HeaderOnceThenPackets ==
    /\ main_pc \in {"new", "header"} => stdout = <<>>
    /\ main_pc \in {"pop", "exit"} =>
           /\ Len(stdout) >= 1
           /\ ~stdout[1].some
           /\ stdout[1].bytes = Magic(TRUE, FALSE) \o HeaderRest(FALSE)
           /\ Len(stdout[1].bytes) = 24
           /\ ParsePcapHeader(stdout[1].bytes) =
                  [kind |-> "ok", is_nanosecond_precision |-> TRUE,
                   is_bigendian |-> FALSE]
           /\ Len(stdout) = 1 + Len(popped)
           /\ \A k \in 1..Len(popped) :
                  LET item == stdout[k + 1]
                      i == popped[k].stream
                  IN  /\ item.some
                      /\ item.src = i
                      /\ item.ts = popped[k].ts
                      /\ item.seq = Len(PacketsOf(SubSeq(stdout, 1, k + 1), i))
                      /\ item = pcaps[i].packets[item.seq]

\* C21 witness: main has returned having written the header and then packets
\* of two inputs; C21 witness of the empty output is C21_HeaderOnly
C21_Witness ==
    /\ main_pc = "exit"
    /\ Len(stdout) >= 3
    /\ \E j, k \in 2..Len(stdout) : stdout[j].src # stdout[k].src

\* main has returned and no packet was produced: the output is the header
C21_HeaderOnly ==
    /\ main_pc = "exit"
    /\ Len(stdout) = 1
    /\ \A i \in DOMAIN pcaps : pcaps[i].packets = <<>>

\* No input fails: every file opens and parses to its end
AllWellFormed == \A i \in DOMAIN pcaps : ~pcaps[i].fails

\* main has returned from the pop loop on None with every packet written
MergeDone ==
    /\ main_pc = "exit"
    /\ pop_ret = "none"
    /\ \A i \in DOMAIN pcaps : PacketsOf(stdout, i) = pcaps[i].packets

\* Before main returns some thread can take a step: main, or a producer task
NoDeadlock == main_pc # "exit" => ENABLED MergeNext

\* While main waits on an empty channel the producer of that very input is
\* not waiting on a full channel: it can take a step
WaitedInputAdvances ==
    \A i \in DOMAIN pipelines :
        (main_pc # "exit" /\ NextPacket(pipelines[i]).blocked) =>
            ENABLED MergeProducerTask(i)

\* C25: for well-formed inputs, under fair scheduling of the producer tasks,
\* the merge terminates: every packet of every input is eventually written
\* and pop eventually returns None; and no reachable state is a deadlock in
\* which main waits on an empty channel while the producers wait on full ones.
C25_MergeTerminates ==
    /\ [](NoDeadlock /\ WaitedInputAdvances)
    /\ AllWellFormed ~> MergeDone

\* C25 witness: a merge of two well-formed non-empty inputs has ended with
\* every packet written
C25_Witness ==
    /\ AllWellFormed
    /\ MergeDone
    /\ DOMAIN pcaps = {0, 1}
    /\ \A i \in DOMAIN pcaps : pcaps[i].packets # <<>>
    /\ Len(Written) = MergeTotal

(***************************************************************************)
(* Specifications                                                          *)
(***************************************************************************)

\* The state right after construction of a tree over no input
TreeIdle ==
    /\ inputs = <<>>
    /\ input_streams = <<>>
    /\ values = [i \in {0} |-> MAX_U64]
    /\ nodes = [i \in {0} |-> 0]
    /\ winning_value_index = 0
    /\ needs_updating = FALSE
    /\ popped = <<>>
    /\ pop_ret = "new"
    /\ none_pops = 0
    /\ comparisons = 0

\* The state right after TakeThenBuffered::new(empty stream, 0, 0)
TTBIdle ==
    /\ stream = <<>>
    /\ stream_done = FALSE
    /\ in_progress_queue = <<>>
    /\ take_n_serially = 0
    /\ max_n_buffered = 0
    /\ completed = {}
    /\ emitted = <<>>
    /\ poll_ret = "new"
    /\ ttb_hist = [take_n_serially |-> 0, source |-> <<>>, pulled |-> 0,
                   all_immediate |-> TRUE, waker |-> FALSE]

\* The state right after stream_and_decode_pcap_packets of a file of no packet
PipeIdle ==
    /\ parser = [rest |-> <<>>, fails |-> FALSE]
    /\ producer = [pc |-> "next", batch |-> <<>>]
    /\ channel = <<>>
    /\ channel_closed = FALSE
    /\ receiver = [cur |-> <<>>, ended |-> FALSE]
    /\ delivered = <<>>
    /\ pipe_hist = [packets |-> <<>>, sent |-> <<>>, received |-> <<>>]

\* The state before Packets::new has read anything of an empty reader
PacketsIdle ==
    /\ pcap_file = [bytes |-> <<>>, records |-> <<>>, nano |-> FALSE,
                    be |-> FALSE, cut |-> 0, rejected |-> 0]
    /\ reader = [pos |-> 0, last |-> "none"]
    /\ pk_pc = "new"
    /\ header_bytes = Zeros(24)
    /\ n_header_bytes_read = 0
    /\ ts_usec_multiplier = 0
    /\ parse = "unset"
    /\ buffer = <<>>
    /\ reader_exhausted = FALSE
    /\ pk_items = <<>>
    /\ pk_ret = "new"

\* The state before ObjectChunks::new
S3Idle ==
    /\ s3_uri = <<>>
    /\ s3_object = [content_length |-> 0, head_fails |-> FALSE]
    /\ oc_pc = "new"
    /\ bucket = <<>>
    /\ key = <<>>
    /\ next_chunk_start = 0
    /\ chunk_size = 1
    /\ file_size = <<>>
    /\ head_object_request = "none"
    /\ oc_hist = [requests |-> <<>>, pending_polls |-> 0]
    /\ oc_ret = "new"

\* The state of merge_pcaps before it has an input
MergeIdle ==
    /\ pcaps = <<>>
    /\ pipelines = <<>>
    /\ packet_streams = <<>>
    /\ main_pc = "new"
    /\ stdout = <<>>
    /\ exit_status = "running"

InitTree == TreeInit /\ TTBIdle /\ PipeIdle /\ PacketsIdle /\ S3Idle /\ MergeIdle
InitTTB == TreeIdle /\ TTBInit /\ PipeIdle /\ PacketsIdle /\ S3Idle /\ MergeIdle
InitPipe == TreeIdle /\ TTBIdle /\ PipeInit /\ PacketsIdle /\ S3Idle /\ MergeIdle
InitPackets == TreeIdle /\ TTBIdle /\ PipeIdle /\ PacketsInit /\ S3Idle /\ MergeIdle
InitPacketsRejecting ==
    TreeIdle /\ TTBIdle /\ PipeIdle /\ PacketsRejectingInit /\ S3Idle /\ MergeIdle
InitS3 == TreeIdle /\ TTBIdle /\ PipeIdle /\ PacketsIdle /\ S3Init /\ MergeIdle
InitMerge == TreeIdle /\ TTBIdle /\ PipeIdle /\ PacketsIdle /\ S3Idle /\ MergeInit

SpecTree == InitTree /\ [][TreeNext]_vars
SpecTTB == InitTTB /\ [][TTBNext]_vars
SpecPipe == InitPipe /\ [][PipeNext]_vars
SpecPackets == InitPackets /\ [][PacketsNext]_vars
\* The pcap parser over a file with a record that the frame parser rejects
SpecPacketsRejecting == InitPacketsRejecting /\ [][PacketsNext]_vars
SpecS3 == InitS3 /\ [][S3Next]_vars
SpecMerge == InitMerge /\ [][MergeNext]_vars

\* The merge_pcaps program under fair scheduling of its tasks
SpecMergeFair == InitMerge /\ [][MergeNext]_vars /\ MergeFairness

====
